---- MODULE Spec2Model ----
(***************************************************************************)
(* GitPromptChain: the PromptChainManager (chain lifecycle and JSON file   *)
(* storage with a commit index) and computeChainMetrics.                   *)
(*                                                                         *)
(* Encoding of JavaScript values                                           *)
(*   - an optional value (x?: T, T | undefined) is a sequence of length    *)
(*     0 (undefined / absent key) or 1 (<<v>>);                            *)
(*   - a string that the code inspects (a prompt) is a sequence of         *)
(*     one-character strings; a string the code only copies or compares    *)
(*     (a SHA, a branch, a summary, a path) is a TLA+ string;              *)
(*   - a Date is <<"Date", ms>>, its ISO-8601 text is <<"iso", ms>>;       *)
(*   - a UUID is the decimal text of a counter, so that each is fresh;     *)
(*   - a file's text is [kind |-> "json", value |-> v] for the text        *)
(*     JSON.stringify(v, null, 2), or Garbage for text that does not       *)
(*     parse.                                                              *)
(***************************************************************************)
EXTENDS Integers, Sequences, FiniteSets, TLC

\* ------------------------------------------------------------------ bounds

\* UUIDs that uuidv4() hands out in one run (chain ids and step ids together).
MaxUuid == 3

\* startChain calls in one run.
MaxChains == 2

\* The most I/O calls of saveChain that fail in one run.
MaxFaults == 1

\* ------------------------------------------------------------ option values

None == <<>>

Some(v) == <<v>>

IsSome(o) == Len(o) > 0

Get(o) == o[1]

\* --------------------------------------------------------------- Date, JSON

DateOf(ms) == <<"Date", ms>>

\* new Date(x).getTime() for x a Date or the ISO text of one.
getTime(d) == d[2]

\* Date.prototype.toJSON: the ISO-8601 text of the same instant.
toISOString(d) == <<"iso", d[2]>>

\* ------------------------------------------------------------------ strings

Whitespace == {" ", "\t", "\n"}

UpperLetters ==
  <<"A","B","C","D","E","F","G","H","I","J","K","L","M",
    "N","O","P","Q","R","S","T","U","V","W","X","Y","Z">>

LowerLetters ==
  <<"a","b","c","d","e","f","g","h","i","j","k","l","m",
    "n","o","p","q","r","s","t","u","v","w","x","y","z">>

\* String.prototype.toLowerCase on one character.
LowerChar(c) ==
  IF \E i \in 1..26 : UpperLetters[i] = c
  THEN LowerLetters[CHOOSE i \in 1..26 : UpperLetters[i] = c]
  ELSE c

toLowerCase(s) == [i \in 1..Len(s) |-> LowerChar(s[i])]

\* The number of leading whitespace characters of s.
RECURSIVE LeadingWs(_)
LeadingWs(s) ==
  IF s = <<>> \/ Head(s) \notin Whitespace THEN 0 ELSE 1 + LeadingWs(Tail(s))

\* The number of trailing whitespace characters of s.
RECURSIVE TrailingWs(_)
TrailingWs(s) ==
  IF s = <<>> \/ s[Len(s)] \notin Whitespace
  THEN 0
  ELSE 1 + TrailingWs(SubSeq(s, 1, Len(s) - 1))

\* String.prototype.trim.
trim(s) ==
  IF LeadingWs(s) = Len(s) THEN <<>>
  ELSE SubSeq(s, LeadingWs(s) + 1, Len(s) - TrailingWs(s))

\* s.split(/\s+/)[0]: the characters of s before its first whitespace run.
RECURSIVE FirstToken(_)
FirstToken(s) ==
  IF s = <<>> \/ Head(s) \in Whitespace THEN <<>>
  ELSE <<Head(s)>> \o FirstToken(Tail(s))

\* ------------------------------------------------------------ ChainMetrics

verbs ==
  { <<"a","d","d">>, <<"u","p","d","a","t","e">>, <<"f","i","x">>,
    <<"c","r","e","a","t","e">>, <<"r","e","m","o","v","e">>,
    <<"d","e","l","e","t","e">>, <<"r","e","f","a","c","t","o","r">>,
    <<"r","e","n","a","m","e">>, <<"i","m","p","l","e","m","e","n","t">>,
    <<"w","r","i","t","e">>, <<"g","e","n","e","r","a","t","e">>,
    <<"o","p","t","i","m","i","z","e">>, <<"d","o","c","u","m","e","n","t">>,
    <<"e","x","p","l","a","i","n">>, <<"s","h","o","w">> }

isImperative(text) == toLowerCase(FirstToken(trim(text))) \in verbs

\* /\?\s*$/.test(text)
EndsWithQuestion(text) ==
  /\ Len(text) > TrailingWs(text)
  /\ text[Len(text) - TrailingWs(text)] = "?"

\* Math.floor(a / b) in the place of Math.round.
RoundDivFloor(a, b) == a \div b

\* Math.round(a / b) for a >= 0, b > 0: halves round up.
RoundDiv(a, b) == (2 * a + b) \div (2 * b)

\* The difference of the instants without the clamp at 0.
MaxSecond(a, b) == b

Max(a, b) == IF a >= b THEN a ELSE b

\* The accumulators of computeChainMetrics before the loop over the steps.
MetricsAcc0 ==
  [ uniqueFiles |-> {}, modificationSteps |-> 0,
    totalLinesAdded |-> 0, totalLinesDeleted |-> 0,
    totalPromptChars |-> 0,
    interrogative |-> 0, imperative |-> 0, narrative |-> 0 ]

\* A fold that adds the lines of a file only the first time it sees the file.
RECURSIVE DiffsAccPerFile(_, _)
DiffsAccPerFile(acc, diffs) ==
  IF diffs = <<>> THEN acc
  ELSE LET d == Head(diffs)
       IN DiffsAccPerFile(
            IF d.filePath \in acc.uniqueFiles THEN acc
            ELSE [acc EXCEPT
                    !.uniqueFiles = @ \cup {d.filePath},
                    !.totalLinesAdded = @ + d.linesAdded,
                    !.totalLinesDeleted = @ + d.linesDeleted],
            Tail(diffs))

\* step.fileDiffs.forEach(d => ...): one FileDiff folded into the accumulators.
RECURSIVE DiffsAcc(_, _)
DiffsAcc(acc, diffs) ==
  IF diffs = <<>> THEN acc
  ELSE LET d == Head(diffs)
       IN DiffsAcc([acc EXCEPT
                      !.uniqueFiles = @ \cup {d.filePath},
                      !.totalLinesAdded = @ + d.linesAdded,
                      !.totalLinesDeleted = @ + d.linesDeleted],
                   Tail(diffs))

\* A style branch of two independent tests: a question that starts with a
\* verb is counted twice.
StyleAccBoth(acc, prompt) ==
  LET a == IF EndsWithQuestion(prompt)
           THEN [acc EXCEPT !.interrogative = @ + 1]
           ELSE acc
  IN IF isImperative(prompt) THEN [a EXCEPT !.imperative = @ + 1]
     ELSE IF EndsWithQuestion(prompt) THEN a
     ELSE [a EXCEPT !.narrative = @ + 1]

\* A style branch that tests the first word before the question mark.
StyleAccVerbFirst(acc, prompt) ==
  IF isImperative(prompt)
  THEN [acc EXCEPT !.imperative = @ + 1]
  ELSE IF EndsWithQuestion(prompt)
  THEN [acc EXCEPT !.interrogative = @ + 1]
  ELSE [acc EXCEPT !.narrative = @ + 1]

\* The style branch of the loop body: exactly one counter is incremented.
StyleAcc(acc, prompt) ==
  IF EndsWithQuestion(prompt)
  THEN [acc EXCEPT !.interrogative = @ + 1]
  ELSE IF isImperative(prompt)
  THEN [acc EXCEPT !.imperative = @ + 1]
  ELSE [acc EXCEPT !.narrative = @ + 1]

\* The body of chain.steps.forEach.
StepAcc(acc, step) ==
  LET a1 == [acc EXCEPT !.totalPromptChars = @ + Len(step.prompt)]
      a2 == StyleAcc(a1, step.prompt)
  IN IF IsSome(step.fileDiffs) /\ Len(Get(step.fileDiffs)) > 0
     THEN DiffsAcc([a2 EXCEPT !.modificationSteps = @ + 1], Get(step.fileDiffs))
     ELSE a2

RECURSIVE StepsAcc(_, _)
StepsAcc(acc, steps) ==
  IF steps = <<>> THEN acc ELSE StepsAcc(StepAcc(acc, Head(steps)), Tail(steps))

computeChainMetrics(chain) ==
  LET start == getTime(chain.startTime)
      end == IF IsSome(chain.endTime) THEN getTime(Get(chain.endTime)) ELSE start
      acc == StepsAcc(MetricsAcc0, chain.steps)
      n == Len(chain.steps)
  IN [ durationMs |-> Max(0, end - start),
       modificationSteps |-> acc.modificationSteps,
       uniqueFilesChanged |-> Cardinality(acc.uniqueFiles),
       totalLinesAdded |-> acc.totalLinesAdded,
       totalLinesDeleted |-> acc.totalLinesDeleted,
       prompts |->
         [ totalLengthChars |-> acc.totalPromptChars,
           avgLengthChars |->
             IF n > 0 THEN RoundDiv(acc.totalPromptChars, n) ELSE 0,
           styleCounts |->
             [ interrogative |-> acc.interrogative,
               imperative |-> acc.imperative,
               narrative |-> acc.narrative ] ] ]

\* ------------------------------------------------------------------ inputs

Str_AddXq == <<"A","d","d"," ","X","?">>

Str_fix == <<"f","i","x">>

\* The FileDiff of the addStep test: the text 'diff content' with the counts
\* 5 and 2.
Diff_a ==
  [ filePath |-> "test.ts", changeType |-> "modified",
    diff |-> <<"d","i","f","f"," ","c","o","n","t","e","n","t">>,
    linesAdded |-> 5, linesDeleted |-> 2 ]

\* The (prompt, response, fileDiffs) triples callers pass to addStep.
StepInputs ==
  { [prompt |-> Str_AddXq, response |-> "done", fileDiffs |-> Some(<<Diff_a>>)],
    [prompt |-> Str_fix, response |-> "ok", fileDiffs |-> None] }

\* The summaries callers pass to startChain.
Summaries == {Some("demo")}

Shas == {"sha1", "sha2"}

\* The (commitSha, branch) pairs callers pass to endChain.
EndInputs ==
  { [commitSha |-> None, branch |-> None],
    [commitSha |-> Some(""), branch |-> Some("main")],
    [commitSha |-> Some("sha1"), branch |-> Some("main")],
    [commitSha |-> Some("sha2"), branch |-> Some("dev")] }

\* The instants, in milliseconds, that new Date() is seen to return: an
\* earlier and a later one.
ClockReadings == {0, 1}

\* config.repoPath, as its path components.
RepoPath == <<"home", "repo">>

\* path.basename
basename(p) == p[Len(p)]

\* ------------------------------------------------------------------- state

VARIABLES
  heap,          \* the PromptChain objects still referenced, by chainId
  currentChain,  \* this.currentChain: None (null) or Some(chainId), a reference into heap
  held,          \* the caller's variables: the chainIds of the chains it references
  nextUuid,      \* the number of uuidv4() calls so far, plus one
  nChains,       \* the number of startChain calls so far
  now,           \* the last reading of the clock by new Date()
  chainFiles,    \* <storageDir>/chain-<id>.json: id -> text, for the files present
  commitDirs,    \* the SHAs s for which <storageDir>/commits/<s>/ exists
  commitFiles,   \* <storageDir>/commits/<s>/chain-<id>.json: <<s, id>> -> text
  nFaults,       \* the number of saveChain calls in which an I/O call failed
  indexFile,     \* <storageDir>/commit-index.json: None, or Some(text)
  ret,           \* the outcome of the last startChain, addStep, endChain or saveChain:
                 \* val is None (null), Some(the id of the object returned), the
                 \* file name returned, or Some(the message of the error thrown)
  saved,         \* history: chainId -> [chain, at]: the chain as last given to a
                 \* saveChain that returned, and the clock reading of that call
  assoc,         \* history: the <<sha, chainId>> a saveChain that returned was given
  lastSave,      \* history: None, or Some([id, existed]) when the last call was a
                 \* saveChain that returned: the chainId it was given, and whether
                 \* chain-<id>.json existed before it
  arg,           \* the arguments of the calls of the utility functions, which
                 \* read nothing of the manager: None while the manager runs
  calls          \* the saveChain calls that were not awaited, in the order they
                 \* were made: for each its chain, the await it stands at (pc),
                 \* the text of its document and its local variable `index`

vars ==
  <<heap, currentChain, held, nextUuid, nChains, now, chainFiles, commitDirs,
    commitFiles, indexFile, nFaults, ret, saved, assoc, lastSave, arg, calls>>

storageVars == <<chainFiles, commitDirs, commitFiles, indexFile>>

historyVars == <<saved, assoc, lastSave>>

NoActiveChainError == "No active prompt chain. Call startChain() first."

Returned(op, val) == [op |-> op, threw |-> FALSE, val |-> val]

Threw(op, error) == [op |-> op, threw |-> TRUE, val |-> Some(error)]

\* The manager after construction and initialize().
Manager0 ==
  /\ heap = <<>>
  /\ currentChain = None
  /\ held = {}
  /\ nextUuid = 1
  /\ nChains = 0
  /\ now = 0
  /\ chainFiles = <<>>
  /\ commitDirs = {}
  /\ commitFiles = <<>>
  /\ indexFile = None
  /\ nFaults = 0
  /\ ret = Returned("initialize", None)
  /\ saved = <<>>
  /\ assoc = {}
  /\ lastSave = None
  /\ calls = <<>>

Init ==
  /\ Manager0
  /\ arg = None

\* ---------------------------------------------------------------- lifecycle

\* uuidv4(): a string no earlier call returned.
uuidv4 == ToString(nextUuid)

NewChain(id, t, summary) ==
  [ chainId |-> id, startTime |-> DateOf(t), endTime |-> None,
    commitSha |-> None, branch |-> None, steps |-> <<>>, summary |-> summary ]

NewStep(id, t, in) ==
  [ id |-> id, timestamp |-> DateOf(t), prompt |-> in.prompt,
    response |-> in.response, fileDiffs |-> in.fileDiffs ]

\* Extends function f by the pair k :> v (or overwrites f[k]).
Put(f, k, v) == [x \in DOMAIN f \cup {k} |-> IF x = k THEN v ELSE f[x]]

\* The objects an optional reference points to.
Refs(o) == {o[i] : i \in 1..Len(o)}

\* The objects of h that some reference of refs still reaches; the others
\* are garbage, which no later call can observe.
Retain(h, refs) == [x \in DOMAIN h \cap refs |-> h[x]]

\* Every action that evaluates new Date() takes the clock's reading t as an
\* input: the clock does not go backwards, so t >= now, the previous reading.
Clock == {t \in ClockReadings : t >= now}

\* `refs` is what the caller references after the call: references it held
\* before, and the one returned (const chain = await manager.startChain(...)).

\* startChain that hands back the chain in progress when there is one.
StartChainResumes(summary, t, refs) ==
  /\ nextUuid <= MaxUuid
  /\ nChains < MaxChains
  /\ refs \subseteq held \cup {uuidv4}
  /\ currentChain' = IF currentChain = None THEN Some(uuidv4) ELSE currentChain
  /\ held' = (refs \ {uuidv4}) \cup Refs(currentChain')
  /\ heap' = Retain(IF currentChain = None
                    THEN Put(heap, uuidv4, NewChain(uuidv4, t, summary))
                    ELSE heap,
                    Refs(currentChain') \cup held')
  /\ nextUuid' = nextUuid + 1
  /\ nChains' = nChains + 1
  /\ now' = t
  /\ ret' = Returned("startChain", currentChain')
  /\ lastSave' = None
  /\ UNCHANGED <<storageVars, nFaults, saved, assoc, arg, calls>>

StartChain(summary, t, refs) ==
  /\ nextUuid <= MaxUuid
  /\ nChains < MaxChains
  /\ refs \subseteq held \cup {uuidv4}
  /\ currentChain' = Some(uuidv4)
  /\ held' = refs
  /\ heap' = Retain(Put(heap, uuidv4, NewChain(uuidv4, t, summary)),
                    Refs(currentChain') \cup held')
  /\ nextUuid' = nextUuid + 1
  /\ nChains' = nChains + 1
  /\ now' = t
  /\ ret' = Returned("startChain", Some(uuidv4))
  /\ lastSave' = None
  /\ UNCHANGED <<storageVars, nFaults, saved, assoc, arg, calls>>

\* addStep without the guard of its first statement: idle, it builds the step
\* and returns it.
AddStepUnguarded(in, t) ==
  /\ nextUuid <= MaxUuid
  /\ heap' = IF currentChain = None THEN heap
             ELSE [heap EXCEPT ![Get(currentChain)].steps =
                     Append(@, NewStep(uuidv4, t, in))]
  /\ nextUuid' = nextUuid + 1
  /\ now' = t
  /\ ret' = Returned("addStep", Some(uuidv4))
  /\ lastSave' = None
  /\ UNCHANGED <<currentChain, held, nChains, storageVars, nFaults, saved, assoc, arg, calls>>

\* addStep with unshift in place of push.
AddStepUnshift(in, t) ==
  IF currentChain = None
  THEN /\ ret' = Threw("addStep", NoActiveChainError)
       /\ lastSave' = None
       /\ UNCHANGED <<heap, currentChain, held, nextUuid, nChains, now,
                      storageVars, nFaults, saved, assoc, arg, calls>>
  ELSE /\ nextUuid <= MaxUuid
       /\ heap' = [heap EXCEPT ![Get(currentChain)].steps =
                     <<NewStep(uuidv4, t, in)>> \o @]
       /\ nextUuid' = nextUuid + 1
       /\ now' = t
       /\ ret' = Returned("addStep", Some(uuidv4))
       /\ lastSave' = None
       /\ UNCHANGED <<currentChain, held, nChains, storageVars, nFaults, saved, assoc, arg, calls>>

\* addStep on chains that share one steps array: the step shows in every chain.
AddStepShared(in, t) ==
  IF currentChain = None
  THEN /\ ret' = Threw("addStep", NoActiveChainError)
       /\ lastSave' = None
       /\ UNCHANGED <<heap, currentChain, held, nextUuid, nChains, now,
                      storageVars, nFaults, saved, assoc, arg, calls>>
  ELSE /\ nextUuid <= MaxUuid
       /\ heap' = [id \in DOMAIN heap |->
                     [heap[id] EXCEPT !.steps = Append(@, NewStep(uuidv4, t, in))]]
       /\ nextUuid' = nextUuid + 1
       /\ now' = t
       /\ ret' = Returned("addStep", Some(uuidv4))
       /\ lastSave' = None
       /\ UNCHANGED <<currentChain, held, nChains, storageVars, nFaults, saved, assoc, arg, calls>>

AddStep(in, t) ==
  IF currentChain = None
  THEN /\ ret' = Threw("addStep", NoActiveChainError)
       /\ lastSave' = None
       /\ UNCHANGED <<heap, currentChain, held, nextUuid, nChains, now,
                      storageVars, nFaults, saved, assoc, arg, calls>>
  ELSE /\ nextUuid <= MaxUuid
       /\ heap' = [heap EXCEPT ![Get(currentChain)].steps =
                     Append(@, NewStep(uuidv4, t, in))]
       /\ nextUuid' = nextUuid + 1
       /\ now' = t
       /\ ret' = Returned("addStep", Some(uuidv4))
       /\ lastSave' = None
       /\ UNCHANGED <<currentChain, held, nChains, storageVars, nFaults, saved, assoc, arg, calls>>

\* endChain without `this.currentChain = null`.
EndChainStaysActive(in, t, refs) ==
  IF currentChain = None
  THEN /\ ret' = Returned("endChain", None)
       /\ lastSave' = None
       /\ UNCHANGED <<heap, currentChain, held, nextUuid, nChains, now,
                      storageVars, nFaults, saved, assoc, arg, calls>>
  ELSE /\ refs \subseteq held \cup Refs(currentChain)
       /\ currentChain' = currentChain
       /\ held' = refs
       /\ heap' = Retain([heap EXCEPT ![Get(currentChain)] =
                            [@ EXCEPT !.endTime = Some(DateOf(t)),
                                      !.commitSha = in.commitSha,
                                      !.branch = in.branch]],
                         Refs(currentChain') \cup held')
       /\ now' = t
       /\ ret' = Returned("endChain", currentChain)
       /\ lastSave' = None
       /\ UNCHANGED <<nextUuid, nChains, storageVars, nFaults, saved, assoc, arg, calls>>

\* endChain that throws when idle, as addStep does.
EndChainIdleThrows(in, t, refs) ==
  IF currentChain = None
  THEN /\ ret' = Threw("endChain", NoActiveChainError)
       /\ lastSave' = None
       /\ UNCHANGED <<heap, currentChain, held, nextUuid, nChains, now,
                      storageVars, nFaults, saved, assoc, arg, calls>>
  ELSE /\ refs \subseteq held \cup Refs(currentChain)
       /\ currentChain' = None
       /\ held' = refs
       /\ heap' = Retain([heap EXCEPT ![Get(currentChain)] =
                            [@ EXCEPT !.endTime = Some(DateOf(t)),
                                      !.commitSha = in.commitSha,
                                      !.branch = in.branch]],
                         held')
       /\ now' = t
       /\ ret' = Returned("endChain", currentChain)
       /\ lastSave' = None
       /\ UNCHANGED <<nextUuid, nChains, storageVars, nFaults, saved, assoc, arg, calls>>

\* endChain that also writes the document of the chain it ends.
EndChainPersists(in, t, refs) ==
  IF currentChain = None
  THEN /\ ret' = Returned("endChain", None)
       /\ lastSave' = None
       /\ UNCHANGED <<heap, currentChain, held, nextUuid, nChains, now,
                      storageVars, nFaults, saved, assoc, arg, calls>>
  ELSE /\ refs \subseteq held \cup Refs(currentChain)
       /\ currentChain' = None
       /\ held' = refs
       /\ heap' = Retain([heap EXCEPT ![Get(currentChain)] =
                            [@ EXCEPT !.endTime = Some(DateOf(t)),
                                      !.commitSha = in.commitSha,
                                      !.branch = in.branch]],
                         held')
       /\ now' = t
       /\ ret' = Returned("endChain", currentChain)
       /\ lastSave' = None
       /\ chainFiles' = [x \in DOMAIN chainFiles \cup Refs(currentChain) |-> "document"]
       /\ UNCHANGED <<nextUuid, nChains, commitDirs, commitFiles, indexFile,
                      nFaults, saved, assoc, arg, calls>>

EndChain(in, t, refs) ==
  IF currentChain = None
  THEN /\ ret' = Returned("endChain", None)
       /\ lastSave' = None
       /\ UNCHANGED <<heap, currentChain, held, nextUuid, nChains, now,
                      storageVars, nFaults, saved, assoc, arg, calls>>
  ELSE /\ refs \subseteq held \cup Refs(currentChain)
       /\ currentChain' = None
       /\ held' = refs
       /\ heap' = Retain([heap EXCEPT ![Get(currentChain)] =
                            [@ EXCEPT !.endTime = Some(DateOf(t)),
                                      !.commitSha = in.commitSha,
                                      !.branch = in.branch]],
                         held')
       /\ now' = t
       /\ ret' = Returned("endChain", currentChain)
       /\ lastSave' = None
       /\ UNCHANGED <<nextUuid, nChains, storageVars, nFaults, saved, assoc, arg, calls>>

\* getCurrentChain() returns this.currentChain.
GetCurrentChainResult == currentChain

GetCurrentChain == UNCHANGED vars

\* ----------------------------------------------------------------- JSON text

Garbage == [kind |-> "garbage", value |-> <<>>]

\* What JSON.stringify makes of a PromptStep: the Date becomes its ISO text,
\* an undefined fileDiffs is left out (it reads back as undefined).
StepToJSON(step) == [step EXCEPT !.timestamp = toISOString(@)]

\* What JSON.stringify makes of a PromptChain.
ChainToJSON(chain) ==
  [chain EXCEPT
     !.startTime = toISOString(@),
     !.endTime = IF IsSome(@) THEN Some(toISOString(Get(@))) ELSE None,
     !.steps = [i \in 1..Len(@) |-> StepToJSON(@[i])]]

\* JSON.stringify(document, null, 2) for a PromptChainDocument.
StringifyDocument(document) ==
  [ kind |-> "json",
    value |->
      [ metadata |-> [document.metadata EXCEPT !.created = toISOString(@)],
        chain |-> ChainToJSON(document.chain) ] ]

\* JSON.stringify(index, null, 2) for the commit index.
StringifyIndex(index) == [kind |-> "json", value |-> index]

\* JSON.parse: [ok, value]; ok is FALSE when it throws a SyntaxError.
JSONparse(text) ==
  IF text.kind = "json" THEN [ok |-> TRUE, value |-> text.value]
  ELSE [ok |-> FALSE, value |-> <<>>]

\* ------------------------------------------------------------------- storage

\* A document whose metrics are those of the chain before it had steps.
DocumentStaleMetrics(chain, t) ==
  [ metadata |->
      [ version |-> "1.0.0",
        created |-> DateOf(t),
        repository |-> [name |-> basename(RepoPath), path |-> RepoPath],
        metrics |-> computeChainMetrics([chain EXCEPT !.steps = <<>>]) ],
    chain |-> chain ]

\* The PromptChainDocument that saveChain builds for a chain at time t.
Document(chain, t) ==
  [ metadata |->
      [ version |-> "1.0.0",
        created |-> DateOf(t),
        repository |-> [name |-> basename(RepoPath), path |-> RepoPath],
        metrics |-> computeChainMetrics(chain) ],
    chain |-> chain ]

\* The test without `chain.commitSha.length > 0`, and with '' taken as a SHA.
HasCommitShaDefined(chain) == IsSome(chain.commitSha)

\* chain.commitSha && chain.commitSha.length > 0
HasCommitSha(chain) == IsSome(chain.commitSha) /\ Get(chain.commitSha) # ""

\* The elements of seq, each once, in the order of their first occurrence
\* (new Set(seq), read back in insertion order).
RECURSIVE Dedup(_)
Dedup(seq) ==
  IF seq = <<>> THEN <<>>
  ELSE LET init == Dedup(SubSeq(seq, 1, Len(seq) - 1))
           last == seq[Len(seq)]
       IN IF \E i \in 1..Len(init) : init[i] = last THEN init
          ELSE Append(init, last)

\* Names every object inherits from Object.prototype, among them:
ObjectPrototypeKeys == {"constructor", "toString", "valueOf", "__proto__"}

\* The value of index[sha] || []: an array with its items, or, with array
\* FALSE, a value that is no array and cannot be iterated.
JsArray(items) == [array |-> TRUE, items |-> items]

JsInherited == [array |-> FALSE, items |-> <<>>]

\* index[sha] || [], for the object JSON.parse returned: the list stored under
\* sha; else the member of Object.prototype of that name, a function or an
\* object, never falsy; else [].
IndexEntry(index, sha) ==
  IF sha \in DOMAIN index THEN JsArray(index[sha])
  ELSE IF sha \in ObjectPrototypeKeys THEN JsInherited
  ELSE JsArray(<<>>)

\* The update with push on the array in place of add on a Set.
AddToIndexPush(index, sha, chainId) ==
  Put(index, sha, Append(IndexEntry(index, sha).items, chainId))

\* list = new Set(index[sha] || []); list.add(chainId); index[sha] = Array.from(list)
AddToIndex(index, sha, chainId) ==
  Put(index, sha, Dedup(Append(IndexEntry(index, sha).items, chainId)))

\* The index saveChain starts from: the parsed commit-index.json, or {} when
\* reading or parsing it throws.
ReadIndexOrEmpty(file, readFails) ==
  IF readFails \/ ~IsSome(file) \/ ~JSONparse(Get(file)).ok THEN <<>>
  ELSE JSONparse(Get(file)).value

\* A file name is the sequence of its parts: `chain-${id}.json` is
\* <<"chain-", id, ".json">>.
ChainFileName(chainId) == <<"chain-", chainId, ".json">>

\* The awaited writes of saveChain, in order; a write that fails throws out of
\* saveChain, and the writes after it do not happen.
WriteFaults == {"doc", "mkdir", "copy", "index"}

\* What a failed fs.writeFile leaves of its target: the file as it was, when
\* the failure comes before the file is opened, or a truncated file.
AfterFailedWrite(old, k, torn) == IF torn THEN Put(old, k, Garbage) ELSE old

\* History only: the chain carries a commit SHA of at least one character.
NonEmptySha(chain) == chain.commitSha # None /\ chain.commitSha # Some("")

\* saveChain that catches the failure of a write and returns the file path.
SaveChainSwallows(id, t, fault, torn, readFails) ==
  LET chain == heap[id]
      text == StringifyDocument(Document(chain, t))
      sha == Get(chain.commitSha)
      index == ReadIndexOrEmpty(indexFile, readFails)
      commit == HasCommitSha(chain) /\ fault # "doc"
      typeError == /\ commit /\ fault \notin {"mkdir", "copy"}
                   /\ ~IndexEntry(index, sha).array
      threw == \/ fault = "doc"
               \/ HasCommitSha(chain) /\ fault \in WriteFaults
               \/ typeError
      failed == fault # "none" \/ readFails
  IN /\ failed => nFaults < MaxFaults
     /\ nFaults' = IF failed THEN nFaults + 1 ELSE nFaults
     /\ chainFiles' = IF fault = "doc"
                      THEN AfterFailedWrite(chainFiles, chain.chainId, torn)
                      ELSE Put(chainFiles, chain.chainId, text)
     /\ commitDirs' = IF commit /\ fault # "mkdir"
                      THEN commitDirs \cup {sha} ELSE commitDirs
     /\ commitFiles' =
          IF commit /\ fault = "copy"
          THEN AfterFailedWrite(commitFiles, <<sha, chain.chainId>>, torn)
          ELSE IF commit /\ fault # "mkdir"
          THEN Put(commitFiles, <<sha, chain.chainId>>, text)
          ELSE commitFiles
     /\ indexFile' =
          IF typeError THEN indexFile
          ELSE IF commit /\ fault = "index"
          THEN (IF torn THEN Some(Garbage) ELSE indexFile)
          ELSE IF commit /\ fault \notin {"mkdir", "copy"}
          THEN Some(StringifyIndex(AddToIndex(index, sha, chain.chainId)))
          ELSE indexFile
     /\ ret' = IF typeError THEN Threw("saveChain", "TypeError")
               ELSE Returned("saveChain", ChainFileName(chain.chainId))
     /\ saved' = IF threw THEN saved
                 ELSE Put(saved, chain.chainId, [chain |-> chain, at |-> t])
     /\ assoc' = IF threw \/ ~NonEmptySha(chain) THEN assoc
                 ELSE assoc \cup {<<Get(chain.commitSha), chain.chainId>>}
     /\ lastSave' = IF threw THEN None
                    ELSE Some([id |-> chain.chainId,
                               existed |-> chain.chainId \in DOMAIN chainFiles])
     /\ now' = t
     /\ UNCHANGED <<heap, currentChain, held, nextUuid, nChains, arg, calls>>

\* saveChain that updates commit-index.json before it writes the documents.
SaveChainIndexFirst(id, t, fault, torn, readFails) ==
  LET chain == heap[id]
      text == StringifyDocument(Document(chain, t))
      sha == Get(chain.commitSha)
      index == ReadIndexOrEmpty(indexFile, readFails)
      commit == HasCommitSha(chain) /\ fault # "doc"
      typeError == /\ commit /\ fault \notin {"mkdir", "copy"}
                   /\ ~IndexEntry(index, sha).array
      threw == \/ fault = "doc"
               \/ HasCommitSha(chain) /\ fault \in WriteFaults
               \/ typeError
      failed == fault # "none" \/ readFails
  IN /\ failed => nFaults < MaxFaults
     /\ nFaults' = IF failed THEN nFaults + 1 ELSE nFaults
     /\ chainFiles' = IF fault = "doc"
                      THEN AfterFailedWrite(chainFiles, chain.chainId, torn)
                      ELSE Put(chainFiles, chain.chainId, text)
     /\ commitDirs' = IF commit /\ fault # "mkdir"
                      THEN commitDirs \cup {sha} ELSE commitDirs
     /\ commitFiles' =
          IF commit /\ fault = "copy"
          THEN AfterFailedWrite(commitFiles, <<sha, chain.chainId>>, torn)
          ELSE IF commit /\ fault # "mkdir"
          THEN Put(commitFiles, <<sha, chain.chainId>>, text)
          ELSE commitFiles
     /\ indexFile' =
          IF typeError THEN indexFile
          ELSE IF commit /\ fault = "index"
          THEN (IF torn THEN Some(Garbage) ELSE indexFile)
          ELSE IF HasCommitSha(chain)
          THEN Some(StringifyIndex(AddToIndex(index, sha, chain.chainId)))
          ELSE indexFile
     /\ ret' = IF typeError THEN Threw("saveChain", "TypeError")
               ELSE IF threw THEN Threw("saveChain", fault)
               ELSE Returned("saveChain", ChainFileName(chain.chainId))
     /\ saved' = IF threw THEN saved
                 ELSE Put(saved, chain.chainId, [chain |-> chain, at |-> t])
     /\ assoc' = IF threw \/ ~NonEmptySha(chain) THEN assoc
                 ELSE assoc \cup {<<Get(chain.commitSha), chain.chainId>>}
     /\ lastSave' = IF threw THEN None
                    ELSE Some([id |-> chain.chainId,
                               existed |-> chain.chainId \in DOMAIN chainFiles])
     /\ now' = t
     /\ UNCHANGED <<heap, currentChain, held, nextUuid, nChains, arg, calls>>

\* saveChain(heap[id]) at clock reading t. fault: "none", or the write that
\* fails; torn: the failed write leaves its file truncated; readFails:
\* reading commit-index.json fails. new Set(index[sha] || []) throws a
\* TypeError when the value is not iterable.
SaveChain(id, t, fault, torn, readFails) ==
  LET chain == heap[id]
      text == StringifyDocument(Document(chain, t))
      sha == Get(chain.commitSha)
      index == ReadIndexOrEmpty(indexFile, readFails)
      commit == HasCommitSha(chain) /\ fault # "doc"
      typeError == /\ commit /\ fault \notin {"mkdir", "copy"}
                   /\ ~IndexEntry(index, sha).array
      threw == \/ fault = "doc"
               \/ HasCommitSha(chain) /\ fault \in WriteFaults
               \/ typeError
      failed == fault # "none" \/ readFails
  IN /\ failed => nFaults < MaxFaults
     /\ nFaults' = IF failed THEN nFaults + 1 ELSE nFaults
     /\ chainFiles' = IF fault = "doc"
                      THEN AfterFailedWrite(chainFiles, chain.chainId, torn)
                      ELSE Put(chainFiles, chain.chainId, text)
     /\ commitDirs' = IF commit /\ fault # "mkdir"
                      THEN commitDirs \cup {sha} ELSE commitDirs
     /\ commitFiles' =
          IF commit /\ fault = "copy"
          THEN AfterFailedWrite(commitFiles, <<sha, chain.chainId>>, torn)
          ELSE IF commit /\ fault # "mkdir"
          THEN Put(commitFiles, <<sha, chain.chainId>>, text)
          ELSE commitFiles
     /\ indexFile' =
          IF typeError THEN indexFile
          ELSE IF commit /\ fault = "index"
          THEN (IF torn THEN Some(Garbage) ELSE indexFile)
          ELSE IF commit /\ fault \notin {"mkdir", "copy"}
          THEN Some(StringifyIndex(AddToIndex(index, sha, chain.chainId)))
          ELSE indexFile
     /\ ret' = IF typeError THEN Threw("saveChain", "TypeError")
               ELSE IF threw THEN Threw("saveChain", fault)
               ELSE Returned("saveChain", ChainFileName(chain.chainId))
     /\ saved' = IF threw THEN saved
                 ELSE Put(saved, chain.chainId, [chain |-> chain, at |-> t])
     /\ assoc' = IF threw \/ ~NonEmptySha(chain) THEN assoc
                 ELSE assoc \cup {<<Get(chain.commitSha), chain.chainId>>}
     /\ lastSave' = IF threw THEN None
                    ELSE Some([id |-> chain.chainId,
                               existed |-> chain.chainId \in DOMAIN chainFiles])
     /\ now' = t
     /\ UNCHANGED <<heap, currentChain, held, nextUuid, nChains, arg, calls>>

\* loadChain: the parsed document, or null (None) when reading or parsing throws.
LoadChainResult(chainId, readFails) ==
  IF readFails \/ chainId \notin DOMAIN chainFiles
  THEN Returned("loadChain", None)
  ELSE IF ~JSONparse(chainFiles[chainId]).ok
  THEN Returned("loadChain", None)
  ELSE Returned("loadChain", Some(JSONparse(chainFiles[chainId]).value))

LoadChain(chainId, readFails) == UNCHANGED vars

\* The entries of <storageDir>.
DirEntries ==
  {ChainFileName(id) : id \in DOMAIN chainFiles}
    \cup (IF IsSome(indexFile) THEN {<<"commit-index", ".json">>} ELSE {})
    \cup (IF commitDirs # {} THEN {<<"commits">>} ELSE {})

\* fs.readdir: the entries in the order the file system lists them.
RECURSIVE SetToSeq(_)
SetToSeq(S) ==
  IF S = {} THEN <<>>
  ELSE LET x == CHOOSE y \in S : TRUE IN <<x>> \o SetToSeq(S \ {x})

\* The filter with only f.endsWith('.json').
IsJsonFile(f) == f[Len(f)] = ".json"

\* f.startsWith('chain-') && f.endsWith('.json')
IsChainFile(f) == f[1] = "chain-" /\ f[Len(f)] = ".json"

\* f.replace(part, ''): f without the first occurrence of part.
RECURSIVE Replace(_, _)
Replace(f, part) ==
  IF f = <<>> THEN <<>>
  ELSE IF Head(f) = part THEN Tail(f)
  ELSE <<Head(f)>> \o Replace(Tail(f), part)

\* The string a sequence of name parts spells.
Spell(f) == IF Len(f) = 1 THEN f[1] ELSE f

ListChainsResult(readFails) ==
  IF readFails THEN Returned("listChains", <<>>)
  ELSE LET files == SelectSeq(SetToSeq(DirEntries), IsChainFile)
       IN Returned("listChains",
                   [i \in 1..Len(files) |->
                      Spell(Replace(Replace(files[i], "chain-"), ".json"))])

ListChains(readFails) == UNCHANGED vars

\* listChainsByCommit: index[commitSha] || [], or [] when reading or parsing
\* commit-index.json throws.
ListChainsByCommitResult(commitSha, readFails) ==
  IF readFails \/ ~IsSome(indexFile) \/ ~JSONparse(Get(indexFile)).ok
  THEN Returned("listChainsByCommit", JsArray(<<>>))
  ELSE Returned("listChainsByCommit",
                IndexEntry(JSONparse(Get(indexFile)).value, commitSha))

ListChainsByCommit(commitSha, readFails) == UNCHANGED vars

\* The loop of loadChainsByCommit: the documents of the ids that load, in order.
RECURSIVE LoadEach(_, _)
LoadEach(chainIds, readFails) ==
  IF chainIds = <<>> THEN <<>>
  ELSE LET doc == LoadChainResult(Head(chainIds), readFails).val
       IN (IF IsSome(doc) THEN <<Get(doc)>> ELSE <<>>)
            \o LoadEach(Tail(chainIds), readFails)

\* idxFails, docFails: reading commit-index.json fails, reading the chain
\* files fails. `for (const id of chainIds)` throws a TypeError when
\* chainIds is not iterable.
LoadChainsByCommitResult(commitSha, idxFails, docFails) ==
  LET chainIds == ListChainsByCommitResult(commitSha, idxFails).val IN
    IF ~chainIds.array
    THEN Threw("loadChainsByCommit", "TypeError: chainIds is not iterable")
    ELSE Returned("loadChainsByCommit", LoadEach(chainIds.items, docFails))

LoadChainsByCommit(commitSha, idxFails, docFails) == UNCHANGED vars

\* ------------------------------------------------------------ specification

\* The chain ids and SHAs callers ask the read operations about.
QueryIds == {ToString(i) : i \in 1..MaxUuid}

QueryShas == Shas \cup {"nonexistent", "constructor"}

\* Sequential calls on a storage directory whose files read and write
\* without error, by a caller that keeps the chain last returned to it and
\* saves either that chain or the one getCurrentChain() returns.
Next ==
  \/ \E summary \in Summaries, t \in Clock : StartChain(summary, t, {uuidv4})
  \/ \E in \in StepInputs, t \in Clock : AddStep(in, t)
  \/ \E in \in EndInputs, t \in Clock : EndChain(in, t, Refs(currentChain))
  \/ GetCurrentChain
  \/ \E id \in DOMAIN heap, t \in Clock : SaveChain(id, t, "none", FALSE, FALSE)
  \/ \E id \in QueryIds : LoadChain(id, FALSE)
  \/ ListChains(FALSE)
  \/ \E sha \in QueryShas : ListChainsByCommit(sha, FALSE)
  \/ \E sha \in QueryShas : LoadChainsByCommit(sha, FALSE, FALSE)

Spec == Init /\ [][Next]_vars

\* Storage under I/O that can fail: any write of saveChain can fail, leaving
\* its file as it was or truncated, and any read can fail. No storage
\* operation looks into the steps of a chain or at the clock, so the chains
\* here have no steps and every call reads the clock at `now`.
FaultNext ==
  \/ \E summary \in Summaries : StartChain(summary, now, {uuidv4})
  \/ \E in \in EndInputs : EndChain(in, now, Refs(currentChain))
  \/ GetCurrentChain
  \/ \E id \in DOMAIN heap, fault \in WriteFaults \cup {"none"},
        torn \in BOOLEAN, readFails \in BOOLEAN :
          SaveChain(id, now, fault, torn, readFails)
  \/ \E id \in QueryIds, readFails \in BOOLEAN : LoadChain(id, readFails)
  \/ \E readFails \in BOOLEAN : ListChains(readFails)
  \/ \E sha \in QueryShas, readFails \in BOOLEAN : ListChainsByCommit(sha, readFails)
  \/ \E sha \in QueryShas, idxFails \in BOOLEAN, docFails \in BOOLEAN :
        LoadChainsByCommit(sha, idxFails, docFails)

FaultSpec == Init /\ [][FaultNext]_vars

\* The calls of a caller that keeps every chain it was handed and may save
\* any of them at any time, without I/O failure. The chains have no steps
\* and every call reads the clock at `now`: what is under study is which chain
\* is saved when, under which SHA.
KeepNext ==
  \/ \E summary \in Summaries : StartChain(summary, now, held \cup {uuidv4})
  \/ \E in \in EndInputs : EndChain(in, now, held \cup Refs(currentChain))
  \/ GetCurrentChain
  \/ \E id \in DOMAIN heap : SaveChain(id, now, "none", FALSE, FALSE)
  \/ \E id \in QueryIds : LoadChain(id, FALSE)
  \/ ListChains(FALSE)
  \/ \E sha \in QueryShas : ListChainsByCommit(sha, FALSE)
  \/ \E sha \in QueryShas : LoadChainsByCommit(sha, FALSE, FALSE)

KeepSpec == Init /\ [][KeepNext]_vars

\* ------------------------------------------------------------ GitIntegration

\* String.prototype.startsWith
startsWith(s, prefix) ==
  Len(s) >= Len(prefix) /\ SubSeq(s, 1, Len(prefix)) = prefix

\* String.prototype.split with a one-character separator: the pieces of s
\* between the separators; one empty piece for the empty text.
RECURSIVE split(_, _)
split(s, sep) ==
  IF s = <<>> THEN << <<>> >>
  ELSE IF Head(s) = sep THEN << <<>> >> \o split(Tail(s), sep)
  ELSE LET rest == split(Tail(s), sep)
       IN << <<Head(s)>> \o Head(rest) >> \o Tail(rest)

\* The loop of parseDiffStats over the lines.
RECURSIVE DiffStatsAcc(_, _)
DiffStatsAcc(acc, lines) ==
  IF lines = <<>> THEN acc
  ELSE LET line == Head(lines)
       IN DiffStatsAcc(
            IF startsWith(line, <<"+">>) /\ ~startsWith(line, <<"+","+","+">>)
            THEN [acc EXCEPT !.added = @ + 1]
            ELSE IF startsWith(line, <<"-">>) /\ ~startsWith(line, <<"-","-","-">>)
            THEN [acc EXCEPT !.deleted = @ + 1]
            ELSE acc,
            Tail(lines))

parseDiffStats(diff) ==
  DiffStatsAcc([added |-> 0, deleted |-> 0], split(diff, "\n"))

\* 'insertions' in file ? file.insertions : 0 (and the same for deletions).
CountOr0(field) == IF IsSome(field) THEN Get(field) ELSE 0

\* getCommitDiffs that classifies a binary file by its counts as well.
CommitDiffOfByCounts(file) ==
  LET linesAdded == CountOr0(file.insertions)
      linesDeleted == CountOr0(file.deletions)
  IN [ changeType |->
         IF linesAdded > 0 /\ linesDeleted = 0 THEN "added"
         ELSE IF linesAdded = 0 /\ linesDeleted > 0 THEN "deleted"
         ELSE "modified",
       linesAdded |-> linesAdded,
       linesDeleted |-> linesDeleted ]

\* The body of the loop of getCommitDiffs: the change type and the line
\* counts of the FileDiff pushed for one file of the diff summary.
CommitDiffOf(file) ==
  LET linesAdded == CountOr0(file.insertions)
      linesDeleted == CountOr0(file.deletions)
  IN [ changeType |->
         IF file.binary THEN "modified"
         ELSE IF linesAdded > 0 /\ linesDeleted = 0 THEN "added"
         ELSE IF linesAdded = 0 /\ linesDeleted > 0 THEN "deleted"
         ELSE "modified",
       linesAdded |-> linesAdded,
       linesDeleted |-> linesDeleted ]

\* ------------------------------------------------- inputs of the utilities

\* The steps of one chain given to computeChainMetrics.
MaxSteps == 2

\* The lines of one diff text given to parseDiffStats.
MaxDiffLines == 3

\* The insertions and the deletions of one file of a diff summary.
MaxLines == 2

Str_FIXit == <<"F","I","X"," ","i","t">>

Str_spfix == <<" ","f","i","x">>

Str_hiqsp == <<"h","i","?"," ">>

Str_fixed == <<"f","i","x","e","d">>

Str_hi == <<"h","i">>

Str_aqb == <<"a","?","b">>

Str_showTabMe == <<"s","h","o","w","\t","m","e">>

Str_q == <<"?">>

Str_fixCommaIt == <<"f","i","x",","," ","i","t">>

\* Prompts of each style: a question that starts with a verb, verbs in either
\* case and after leading whitespace, a question mark before trailing
\* whitespace and one inside the text, tokens that only start with a verb,
\* the empty prompt.
StylePrompts ==
  { Str_AddXq, Str_fix, Str_FIXit, Str_spfix, Str_hiqsp, Str_fixed, Str_hi,
    <<>>, Str_aqb, Str_showTabMe, Str_q, Str_fixCommaIt }

\* The diffs of the aggregation test: file1.ts is changed in two steps.
Diff_file1 ==
  [ filePath |-> "file1.ts", changeType |-> "modified", diff |-> <<>>,
    linesAdded |-> 3, linesDeleted |-> 1 ]

Diff_file1Again ==
  [ filePath |-> "file1.ts", changeType |-> "modified", diff |-> <<>>,
    linesAdded |-> 2, linesDeleted |-> 0 ]

Diff_file2 ==
  [ filePath |-> "file2.ts", changeType |-> "added", diff |-> <<>>,
    linesAdded |-> 8, linesDeleted |-> 0 ]

\* The (prompt, response, fileDiffs) of the steps of the chains measured:
\* every style prompt without diffs, and steps with one diff, with two, and
\* with an empty list of diffs.
MetricSteps ==
  { [prompt |-> p, response |-> "ok", fileDiffs |-> None] : p \in StylePrompts }
  \cup
  { [prompt |-> Str_AddXq, response |-> "ok", fileDiffs |-> Some(<<Diff_file1>>)],
    [prompt |-> Str_fix, response |-> "ok",
     fileDiffs |-> Some(<<Diff_file1Again, Diff_file2>>)],
    [prompt |-> Str_hi, response |-> "ok", fileDiffs |-> Some(<<>>)] }

\* The chain a caller built by startChain at `start`, one addStep for each
\* of `ins`, and `end` as its endTime.
MetricChain(start, end, ins) ==
  [ NewChain("c", start, None) EXCEPT
      !.endTime = end,
      !.steps = [i \in 1..Len(ins) |-> NewStep(ToString(i), start, ins[i])] ]

\* Chains of up to MaxSteps steps, started at instant 1: without endTime, and
\* with an endTime before, at and after the start.
MetricChains ==
  { MetricChain(1, end, ins) :
      end \in {None, Some(DateOf(0)), Some(DateOf(1)), Some(DateOf(3))},
      ins \in UNION {[1..n -> MetricSteps] : n \in 0..MaxSteps} }

Chain0 == MetricChain(1, None, <<>>)

\* The lines of the output of git diff for one file, each with what it is in
\* the diff: a line of the file header, an added line, a deleted line, or
\* another line (context, an empty line). The text of an added line is '+'
\* followed by the line of the new file, that of a deleted line '-' followed
\* by the line of the old file.
DiffLines ==
  { [kind |-> "header", text |-> <<"-","-","-"," ","a">>],
    [kind |-> "header", text |-> <<"+","+","+"," ","b">>],
    [kind |-> "other", text |-> <<>>],
    [kind |-> "other", text |-> <<" ","x">>],
    [kind |-> "added", text |-> <<"+">>],
    [kind |-> "added", text |-> <<"+","x">>],
    [kind |-> "added", text |-> <<"+","+","+","i">>],
    [kind |-> "deleted", text |-> <<"-","x">>],
    [kind |-> "deleted", text |-> <<"-","-","-"," ","x">>] }

\* lines.join('\n')
RECURSIVE Join(_)
Join(lines) ==
  IF Len(lines) = 1 THEN lines[1].text
  ELSE lines[1].text \o <<"\n">> \o Join(Tail(lines))

\* The diff of a file with two lines added and one deleted.
DiffLines_example ==
  << [kind |-> "header", text |-> <<"-","-","-"," ","a">>],
     [kind |-> "header", text |-> <<"+","+","+"," ","b">>],
     [kind |-> "added", text |-> <<"+","x">>],
     [kind |-> "added", text |-> <<"+">>],
     [kind |-> "deleted", text |-> <<"-","x">>] >>

\* The diff texts of up to MaxDiffLines lines and the example, with the lines
\* they were made of.
DiffTexts ==
  { [lines |-> ls, text |-> Join(ls)] :
      ls \in UNION {[1..n -> DiffLines] : n \in 1..MaxDiffLines}
              \cup {DiffLines_example} }

DiffText0 == [lines |-> <<[kind |-> "other", text |-> <<>>]>>, text |-> <<>>]

\* The files of a diff summary: binary or not, and insertions and deletions
\* each absent or a count.
SummaryCounts == {None} \cup {Some(n) : n \in 0..MaxLines}

SummaryFiles ==
  [binary : BOOLEAN, insertions : SummaryCounts, deletions : SummaryCounts]

SummaryFile0 == [binary |-> FALSE, insertions |-> None, deletions |-> None]

\* One call of a utility function: the function and its argument.
UtilityCalls ==
  { [fn |-> "computeChainMetrics", chain |-> c, diff |-> DiffText0,
     file |-> SummaryFile0] : c \in MetricChains }
  \cup
  { [fn |-> "parseDiffStats", chain |-> Chain0, diff |-> d,
     file |-> SummaryFile0] : d \in DiffTexts }
  \cup
  { [fn |-> "getCommitDiffs", chain |-> Chain0, diff |-> DiffText0,
     file |-> f] : f \in SummaryFiles }

UtilityInit ==
  /\ Manager0
  /\ arg \in UtilityCalls

ComputeChainMetrics ==
  /\ arg.fn = "computeChainMetrics"
  /\ ret' = Returned("computeChainMetrics", computeChainMetrics(arg.chain))
  /\ UNCHANGED <<heap, currentChain, held, nextUuid, nChains, now,
                 storageVars, nFaults, saved, assoc, lastSave, arg, calls>>

ParseDiffStats ==
  /\ arg.fn = "parseDiffStats"
  /\ ret' = Returned("parseDiffStats", parseDiffStats(arg.diff.text))
  /\ UNCHANGED <<heap, currentChain, held, nextUuid, nChains, now,
                 storageVars, nFaults, saved, assoc, lastSave, arg, calls>>

GetCommitDiffs ==
  /\ arg.fn = "getCommitDiffs"
  /\ ret' = Returned("getCommitDiffs", CommitDiffOf(arg.file))
  /\ UNCHANGED <<heap, currentChain, held, nextUuid, nChains, now,
                 storageVars, nFaults, saved, assoc, lastSave, arg, calls>>

UtilityNext ==
  \/ ComputeChainMetrics
  \/ ParseDiffStats
  \/ GetCommitDiffs

\* The utility functions applied to one argument each.
UtilitySpec == UtilityInit /\ [][UtilityNext]_vars

\* The lifecycle calls of a caller that keeps every chain it was handed, at
\* any clock readings.
HoldNext ==
  \/ \E summary \in Summaries, t \in Clock :
       StartChain(summary, t, held \cup {uuidv4})
  \/ \E in \in StepInputs, t \in Clock : AddStep(in, t)
  \/ \E in \in EndInputs, t \in Clock :
       EndChain(in, t, held \cup Refs(currentChain))
  \/ GetCurrentChain

HoldSpec == Init /\ [][HoldNext]_vars

\* The caller assigns another commit SHA to a chain it holds (the commit was
\* amended or rebased), to save the chain again: PromptChain is a plain
\* object and saveChain takes whatever chain it is given.
Recommit(id, sha) ==
  /\ id \in held
  /\ Some(id) # currentChain
  /\ HasCommitSha(heap[id])
  /\ heap[id].commitSha # Some(sha)
  /\ heap' = [heap EXCEPT ![id].commitSha = Some(sha)]
  /\ lastSave' = None
  /\ UNCHANGED <<currentChain, held, nextUuid, nChains, now, storageVars,
                 nFaults, ret, saved, assoc, arg, calls>>

\* The calls of KeepSpec and the caller's change of a chain's commit SHA.
RecommitNext ==
  \/ KeepNext
  \/ \E id \in DOMAIN heap, sha \in Shas : Recommit(id, sha)

RecommitSpec == Init /\ [][RecommitNext]_vars

\* -------------------------------------------------- saveChain, not awaited

\* saveChain calls made without awaiting the one before (or made by two
\* processes on one storage directory) in one run.
MaxCalls == 2

\* The variables a step of a saveChain call in flight leaves alone, storage
\* and `calls` apart.
callFrame ==
  <<heap, currentChain, held, nextUuid, nChains, now, nFaults, ret, saved,
    assoc, lastSave, arg>>

\* saveChain(heap[id]) up to its first await: the document is built and
\* stringified, and fs.writeFile is called (lines 72-88).
BeginSaveChain(id) ==
  /\ Len(calls) < MaxCalls
  /\ calls' = Append(calls,
                [ chain |-> heap[id], pc |-> "document",
                  text |-> StringifyDocument(Document(heap[id], now)),
                  index |-> <<>> ])
  /\ UNCHANGED <<callFrame, storageVars>>

\* Call c moves on to the await `pc`.
Resume(c, pc) == calls' = [calls EXCEPT ![c].pc = pc]

\* A store that keeps every document in one file and rewrites it as a whole,
\* as the index is.
SaveWriteDocumentWhole(c) ==
  LET call == calls[c]
  IN /\ call.pc = "document"
     /\ chainFiles' = [id \in {call.chain.chainId} |-> call.text]
     /\ Resume(c, IF HasCommitSha(call.chain) THEN "mkdir" ELSE "return")
     /\ UNCHANGED <<callFrame, commitDirs, commitFiles, indexFile>>

\* await fs.writeFile(filepath, ...) (line 88), then the test of line 92.
SaveWriteDocument(c) ==
  LET call == calls[c]
  IN /\ call.pc = "document"
     /\ chainFiles' = Put(chainFiles, call.chain.chainId, call.text)
     /\ Resume(c, IF HasCommitSha(call.chain) THEN "mkdir" ELSE "return")
     /\ UNCHANGED <<callFrame, commitDirs, commitFiles, indexFile>>

\* await fs.mkdir(commitDir, { recursive: true }) (line 94).
SaveMkdir(c) ==
  LET call == calls[c]
  IN /\ call.pc = "mkdir"
     /\ commitDirs' = commitDirs \cup {Get(call.chain.commitSha)}
     /\ Resume(c, "copy")
     /\ UNCHANGED <<callFrame, chainFiles, commitFiles, indexFile>>

\* await fs.writeFile(commitFile, ...) (line 96).
SaveWriteCopy(c) ==
  LET call == calls[c]
  IN /\ call.pc = "copy"
     /\ commitFiles' = Put(commitFiles,
                           <<Get(call.chain.commitSha), call.chain.chainId>>,
                           call.text)
     /\ Resume(c, "read")
     /\ UNCHANGED <<callFrame, chainFiles, commitDirs, indexFile>>

\* The try block of lines 100-106: index = JSON.parse(await fs.readFile(...)),
\* or {} when that throws.
SaveReadIndex(c) ==
  /\ calls[c].pc = "read"
  /\ calls' = [calls EXCEPT ![c].pc = "write",
                            ![c].index = ReadIndexOrEmpty(indexFile, FALSE)]
  /\ UNCHANGED <<callFrame, storageVars>>

\* An update that reads the index again at the instant it writes it.
SaveWriteIndexAtomic(c) ==
  LET call == calls[c]
      sha == Get(call.chain.commitSha)
      index == ReadIndexOrEmpty(indexFile, FALSE)
      iterable == IndexEntry(index, sha).array
  IN /\ call.pc = "write"
     /\ indexFile' =
          IF iterable
          THEN Some(StringifyIndex(AddToIndex(index, sha, call.chain.chainId)))
          ELSE indexFile
     /\ Resume(c, IF iterable THEN "return" ELSE "throw")
     /\ UNCHANGED <<callFrame, chainFiles, commitDirs, commitFiles>>

\* Lines 107-110: the entry of the SHA in the local `index` gets the chainId
\* and the whole index is written; new Set(...) throws when the entry is not
\* iterable.
SaveWriteIndex(c) ==
  LET call == calls[c]
      sha == Get(call.chain.commitSha)
      iterable == IndexEntry(call.index, sha).array
  IN /\ call.pc = "write"
     /\ indexFile' =
          IF iterable
          THEN Some(StringifyIndex(AddToIndex(call.index, sha, call.chain.chainId)))
          ELSE indexFile
     /\ Resume(c, IF iterable THEN "return" ELSE "throw")
     /\ UNCHANGED <<callFrame, chainFiles, commitDirs, commitFiles>>

\* The promise of call c settles: return filepath (line 113), or the
\* TypeError.
SaveSettle(c) ==
  LET call == calls[c]
      threw == call.pc = "throw"
  IN /\ call.pc \in {"return", "throw"}
     /\ Resume(c, IF threw THEN "rejected" ELSE "fulfilled")
     /\ ret' = IF threw THEN Threw("saveChain", "TypeError")
               ELSE Returned("saveChain", ChainFileName(call.chain.chainId))
     /\ saved' = IF threw THEN saved
                 ELSE Put(saved, call.chain.chainId, [chain |-> call.chain, at |-> now])
     /\ assoc' = IF threw \/ ~NonEmptySha(call.chain) THEN assoc
                 ELSE assoc \cup {<<Get(call.chain.commitSha), call.chain.chainId>>}
     /\ lastSave' = None
     /\ UNCHANGED <<heap, currentChain, held, nextUuid, nChains, now, nFaults,
                    arg, storageVars>>

\* A caller that builds its chains first (keeping each one) and then saves
\* them without awaiting: the awaits of the calls in flight interleave in any
\* order. Each fs call takes effect in one step.
AsyncNext ==
  \/ \E summary \in Summaries :
       calls = <<>> /\ StartChain(summary, now, held \cup {uuidv4})
  \/ \E in \in EndInputs :
       calls = <<>> /\ EndChain(in, now, held \cup Refs(currentChain))
  \/ \E id \in DOMAIN heap : BeginSaveChain(id)
  \/ \E c \in DOMAIN calls : SaveWriteDocument(c)
  \/ \E c \in DOMAIN calls : SaveMkdir(c)
  \/ \E c \in DOMAIN calls : SaveWriteCopy(c)
  \/ \E c \in DOMAIN calls : SaveReadIndex(c)
  \/ \E c \in DOMAIN calls : SaveWriteIndex(c)
  \/ \E c \in DOMAIN calls : SaveSettle(c)

AsyncSpec == Init /\ [][AsyncNext]_vars

\* ---------------------------------------------------------------------- cli

\* The commands of the interactive CLI on its one manager. A command runs to
\* its showMenu before the next choice is read. The CLI keeps no chain
\* between commands: `held` is the completedChain of a 'save' in progress.
AtMenu == held = {}

\* What getLastCommitSha and getCurrentBranch hand to endChain: both are
\* strings, the SHA empty when the repository has no commit.
CliEndInputs == {in \in EndInputs : in.commitSha # None}

\* 'start': startNewChain.
CliStartNewChain ==
  /\ AtMenu
  /\ \E summary \in Summaries : StartChain(summary, now, {})

\* 'add' with an active chain: addPromptStep.
CliAddPromptStep ==
  /\ AtMenu
  /\ currentChain # None
  /\ \E in \in StepInputs : AddStep(in, now)

\* 'save' without an active chain: 'No active chain to save.'
CliSaveIdle ==
  /\ AtMenu
  /\ currentChain = None
  /\ ret' = Returned("save", Some("No active chain to save."))
  /\ lastSave' = None
  /\ UNCHANGED <<heap, currentChain, held, nextUuid, nChains, now,
                 storageVars, nFaults, saved, assoc, arg, calls>>

\* A 'save' that hands the chain still active to saveChain.
CliSaveEndChainKeepsActive ==
  /\ AtMenu
  /\ currentChain # None
  /\ \E in \in CliEndInputs : EndChainStaysActive(in, now, Refs(currentChain))

\* 'save' with an active chain, first call: completedChain = endChain(...).
CliSaveEndChain ==
  /\ AtMenu
  /\ currentChain # None
  /\ \E in \in CliEndInputs : EndChain(in, now, Refs(currentChain))

\* 'save', second call: saveChain(completedChain), which may fail.
CliSaveSaveChain ==
  /\ ~AtMenu
  /\ ret.op = "endChain"
  /\ \E id \in held, fault \in WriteFaults \cup {"none"},
        torn \in BOOLEAN, readFails \in BOOLEAN :
       SaveChain(id, now, fault, torn, readFails)

\* 'save', end: 'Chain saved!' or, in the catch, 'Error saving chain:'; then
\* showMenu. completedChain goes out of scope.
CliSaveShowMenu ==
  /\ ~AtMenu
  /\ ret.op = "saveChain"
  /\ held' = {}
  /\ heap' = Retain(heap, Refs(currentChain))
  /\ ret' = Returned("showMenu",
                     Some(IF ret.threw THEN "Error saving chain:" ELSE "Chain saved!"))
  /\ lastSave' = None
  /\ UNCHANGED <<currentChain, nextUuid, nChains, now,
                 storageVars, nFaults, saved, assoc, arg, calls>>

CliNext ==
  \/ CliStartNewChain
  \/ CliAddPromptStep
  \/ CliSaveIdle
  \/ CliSaveEndChain
  \/ CliSaveSaveChain
  \/ CliSaveShowMenu

\* The start, add and save commands of one CLI session, with I/O failures in
\* saveChain.
CliSpec == Init /\ [][CliNext]_vars

\* ------------------------------------------------------ lifecycle properties

\* The uuids issued so far.
IssuedUuids == {ToString(i) : i \in 1..(nextUuid - 1)}

\* s is a prefix of r.
IsPrefix(s, r) == Len(s) <= Len(r) /\ SubSeq(r, 1, Len(s)) = s

\* C1: addStep called while no chain is active throws the 'No active prompt
\* chain' error and changes nothing: the manager stays idle, no chain gains a
\* step, no uuid is consumed and storage is untouched.
C1_AddStepIdleThrows ==
  [][\A in \in StepInputs, t \in Clock :
       (currentChain = None /\ AddStep(in, t)) =>
         /\ ret'.op = "addStep" /\ ret'.threw
         /\ ret'.val = Some("No active prompt chain. Call startChain() first.")
         /\ currentChain' = None
         /\ UNCHANGED <<heap, held, nextUuid, storageVars>>]_vars

\* addStep has thrown in an idle manager that already ended and saved a chain
\* with a step.
C1_Witness ==
  /\ ret.op = "addStep" /\ ret.threw
  /\ currentChain = None
  /\ \E id \in held : heap[id].steps # <<>> /\ id \in DOMAIN chainFiles

\* C2: endChain called while a chain is active returns that chain with endTime
\* set to the clock's reading, commitSha and branch set to the arguments and
\* everything else (chainId, startTime, summary, steps) as it was; the manager
\* is idle and getCurrentChain() returns null right afterwards.
C2_EndChainActive ==
  [][\A in \in EndInputs, t \in Clock :
       (currentChain # None /\ EndChain(in, t, Refs(currentChain))) =>
         LET id == Get(currentChain) IN
           /\ ret' = Returned("endChain", Some(id))
           /\ heap'[id] = [heap[id] EXCEPT !.endTime = Some(DateOf(t)),
                                           !.commitSha = in.commitSha,
                                           !.branch = in.branch]
           /\ heap'[id].steps = heap[id].steps
           /\ currentChain' = None
           /\ GetCurrentChainResult' = None
           /\ UNCHANGED storageVars]_vars

\* endChain has returned a chain with two steps, stamped with a commit SHA, a
\* branch and an end time later than its start time.
C2_Witness ==
  /\ ret.op = "endChain" /\ ret.val # None
  /\ currentChain = None
  /\ LET chain == heap[Get(ret.val)] IN
       /\ Len(chain.steps) = 2
       /\ chain.commitSha = Some("sha1") /\ chain.branch = Some("main")
       /\ chain.endTime # None
       /\ getTime(Get(chain.endTime)) > getTime(chain.startTime)

\* C3: endChain called while no chain is active returns null and changes
\* nothing.
C3_EndChainIdle ==
  [][\A in \in EndInputs, t \in Clock :
       (currentChain = None /\ EndChain(in, t, Refs(currentChain))) =>
         /\ ret' = Returned("endChain", None)
         /\ currentChain' = None
         /\ UNCHANGED <<heap, held, nextUuid, storageVars>>]_vars

\* endChain has returned null in a manager that ended and saved a chain before.
C3_Witness ==
  /\ ret = Returned("endChain", None)
  /\ currentChain = None
  /\ \E id \in held : heap[id].endTime # None /\ id \in DOMAIN chainFiles

\* C4: startChain succeeds whether the manager is idle or active; afterwards
\* the active chain has a chainId that was never issued before, no steps, the
\* given summary and no endTime, commitSha or branch; a chain that was active
\* is dropped without being saved (storage is unchanged).
C4_StartChainAlwaysSucceeds ==
  /\ [](\A summary \in Summaries :
          (nextUuid <= MaxUuid /\ nChains < MaxChains) =>
            ENABLED StartChain(summary, now, {uuidv4}))
  /\ [][\A summary \in Summaries, t \in Clock :
          StartChain(summary, t, {uuidv4}) =>
            /\ ~ret'.threw /\ ret'.op = "startChain" /\ ret'.val = currentChain'
            /\ currentChain' # None
            /\ LET id == Get(currentChain') IN
                 /\ id \notin IssuedUuids
                 /\ id \notin DOMAIN heap \cup DOMAIN chainFiles
                 /\ heap'[id].chainId = id
                 /\ heap'[id].steps = <<>>
                 /\ heap'[id].summary = summary
                 /\ heap'[id].startTime = DateOf(t)
                 /\ heap'[id].endTime = None
                 /\ heap'[id].commitSha = None /\ heap'[id].branch = None
            /\ UNCHANGED storageVars]_vars

\* startChain has returned a second chain while the first, which has a step
\* and was saved without having been ended, is no longer the active one.
C4_Witness ==
  /\ ret.op = "startChain" /\ ~ret.threw
  /\ nChains = 2
  /\ currentChain # None /\ heap[Get(currentChain)].steps = <<>>
  /\ \E id \in DOMAIN chainFiles :
       /\ Some(id) # currentChain
       /\ JSONparse(chainFiles[id]).value.chain.endTime = None
       /\ JSONparse(chainFiles[id]).value.chain.steps # <<>>

\* C5: steps are append-only. A call of addStep that returns leaves the chain
\* active with its old steps followed by exactly one new step, which carries
\* the given prompt, response and fileDiffs; and no call of any operation
\* removes, reorders or alters a step a chain already has.
C5_StepsAppendOnly ==
  [][/\ \A id \in DOMAIN heap \cap DOMAIN heap' :
          IsPrefix(heap[id].steps, heap'[id].steps)
     /\ \A in \in StepInputs, t \in Clock :
          (currentChain # None /\ AddStep(in, t)) =>
            LET id == Get(currentChain)
                step == heap'[id].steps[Len(heap'[id].steps)]
            IN /\ ~ret'.threw /\ ret'.op = "addStep"
               /\ ret'.val = Some(step.id)
               /\ step.prompt = in.prompt
               /\ step.response = in.response
               /\ step.fileDiffs = in.fileDiffs
               /\ step.timestamp = DateOf(t)
               /\ heap'[id] = [heap[id] EXCEPT !.steps = Append(@, step)]
               /\ currentChain' = currentChain]_vars

\* addStep has just appended a second step to the active chain, different
\* from the first.
C5_Witness ==
  /\ ret.op = "addStep" /\ ~ret.threw
  /\ currentChain # None
  /\ LET steps == heap[Get(currentChain)].steps IN
       /\ Len(steps) = 2
       /\ Some(steps[2].id) = ret.val
       /\ steps[1].prompt # steps[2].prompt

\* -------------------------------------------------------- storage properties

\* a and b are both absent, or are the same instant.
SameOptionalInstant(a, b) ==
  IF a = None \/ b = None THEN a = b ELSE getTime(Get(a)) = getTime(Get(b))

\* The loaded step carries what the step in memory carries.
SameStep(loaded, step) ==
  /\ loaded.id = step.id
  /\ getTime(loaded.timestamp) = getTime(step.timestamp)
  /\ loaded.prompt = step.prompt
  /\ loaded.response = step.response
  /\ loaded.fileDiffs = step.fileDiffs

\* The loaded chain carries what the chain in memory carries.
SameChain(loaded, chain) ==
  /\ loaded.chainId = chain.chainId
  /\ getTime(loaded.startTime) = getTime(chain.startTime)
  /\ SameOptionalInstant(loaded.endTime, chain.endTime)
  /\ loaded.commitSha = chain.commitSha
  /\ loaded.branch = chain.branch
  /\ loaded.summary = chain.summary
  /\ Len(loaded.steps) = Len(chain.steps)
  /\ \A i \in 1..Len(chain.steps) : SameStep(loaded.steps[i], chain.steps[i])

\* loadChain(chainId) returns a document for `chain`, saved at clock reading at.
LoadsAs(chainId, chain, at) ==
  LET r == LoadChainResult(chainId, FALSE) IN
    /\ ~r.threw /\ r.val # None
    /\ SameChain(Get(r.val).chain, chain)
    /\ Get(r.val).metadata.version = "1.0.0"
    /\ Get(r.val).metadata.metrics = computeChainMetrics(chain)
    /\ getTime(Get(r.val).metadata.created) = at

\* The members of a sequence.
Range(seq) == {seq[i] : i \in 1..Len(seq)}

\* C6: save/load round trip. Right after saveChain(chain) returns, and from
\* then on until that chainId is saved again, loadChain(chain.chainId) returns
\* a document whose chain has the chainId, start and end instants, commitSha,
\* branch, summary and steps (in order) of the chain as it was saved, whose
\* metadata.version is "1.0.0" and whose metadata.metrics is
\* computeChainMetrics(chain); after a second save of the same chainId it is
\* the document of the second save.
C6_SaveLoadRoundTrip ==
  /\ \A id \in DOMAIN saved : LoadsAs(id, saved[id].chain, saved[id].at)
  /\ lastSave # None =>
       /\ Get(lastSave).id \in DOMAIN heap
       /\ LoadsAs(Get(lastSave).id, heap[Get(lastSave).id], now)

\* saveChain has just returned for a chain that was saved before and, since
\* then, was ended with a commit SHA; it has a step with file diffs, and the
\* second save is later than the chain's start.
C6_Witness ==
  /\ lastSave # None /\ Get(lastSave).existed
  /\ LET doc == saved[Get(lastSave).id] IN
       /\ doc.chain.steps # <<>>
       /\ doc.chain.steps[1].fileDiffs # None
       /\ doc.chain.endTime # None
       /\ doc.chain.commitSha = Some("sha1")
       /\ doc.at > getTime(doc.chain.startTime)

\* C7: the read operations never fail. loadChain returns null when the chain
\* file is absent, unparseable or unreadable; listChains returns [] when the
\* storage directory cannot be read; listChainsByCommit returns [] when the
\* SHA is not in the index or the index file is absent, unparseable or
\* unreadable; loadChainsByCommit returns [] for a SHA that is not in the
\* index.
C7_ReadsNeverFail ==
  /\ \A id \in QueryIds, readFails \in BOOLEAN :
       LET r == LoadChainResult(id, readFails) IN
         /\ ~r.threw
         /\ (readFails \/ id \notin DOMAIN chainFiles
               \/ chainFiles[id] = Garbage) => r.val = None
  /\ ~ListChainsResult(FALSE).threw
  /\ ListChainsResult(TRUE) = Returned("listChains", <<>>)
  /\ \A sha \in QueryShas, readFails \in BOOLEAN :
       LET r == ListChainsByCommitResult(sha, readFails)
           unknown == \/ readFails \/ indexFile = None
                      \/ indexFile = Some(Garbage)
                      \/ sha \notin DOMAIN Get(indexFile).value
       IN /\ ~r.threw
          /\ unknown => r.val = JsArray(<<>>)
          /\ \A docFails \in BOOLEAN :
               LET l == LoadChainsByCommitResult(sha, readFails, docFails)
               IN ~l.threw /\ (unknown => l.val = <<>>)

\* A chain was saved under sha1, then a failed write left its chain file
\* truncated; another chain's file was never written, and the index, which
\* parses, has no entry for sha2.
C7_Witness ==
  /\ \E id \in DOMAIN chainFiles :
       chainFiles[id] = Garbage /\ <<"sha1", id>> \in assoc
  /\ \E id \in DOMAIN heap : id \notin DOMAIN chainFiles
  /\ indexFile # None /\ indexFile # Some(Garbage)
  /\ "sha2" \notin DOMAIN Get(indexFile).value

\* C8: when every saveChain call so far returned, listChains returns exactly
\* the chainIds of the chains saved, each once, however often a chain was
\* saved and whether or not it was also copied under commits/<sha>/;
\* commit-index.json is not listed; with nothing saved the list is empty.
C8_ListChainsExact ==
  LET r == ListChainsResult(FALSE) IN
    /\ ~r.threw
    /\ Range(r.val) = DOMAIN saved
    /\ Len(r.val) = Cardinality(DOMAIN saved)
    /\ "commit-index" \notin Range(r.val)
    /\ saved = <<>> => r.val = <<>>

\* Two chains are saved, one under a commit and one without; the last call
\* saved a chain again, and commit-index.json and commits/ exist.
C8_Witness ==
  /\ Cardinality(DOMAIN saved) = 2
  /\ lastSave # None /\ Get(lastSave).existed
  /\ indexFile # None /\ commitDirs # {}
  /\ \E id \in DOMAIN saved : saved[id].chain.commitSha = None

\* C9: a chain is associated with a commit exactly when a saveChain that
\* returned was given it with a commitSha of at least one character. Such a
\* save writes commits/<s>/chain-<id>.json with the content of
\* chain-<id>.json and makes listChainsByCommit(s) contain the id; a save of a
\* chain whose commitSha is absent or '' writes chain-<id>.json and leaves
\* commits/ and commit-index.json as they were.
C9_CommitAssociation ==
  /\ [](\A s \in QueryShas \cup {""}, id \in QueryIds :
          /\ id \in Range(ListChainsByCommitResult(s, FALSE).val.items)
               <=> <<s, id>> \in assoc
          /\ <<s, id>> \in DOMAIN commitFiles <=> <<s, id>> \in assoc)
  /\ [][\A id \in DOMAIN heap, t \in Clock :
          SaveChain(id, t, "none", FALSE, FALSE) =>
            /\ ret' = Returned("saveChain", <<"chain-", id, ".json">>)
            /\ id \in DOMAIN chainFiles'
            /\ IF heap[id].commitSha \notin {None, Some("")}
               THEN LET s == Get(heap[id].commitSha) IN
                      /\ s \in commitDirs'
                      /\ <<s, id>> \in DOMAIN commitFiles'
                      /\ commitFiles'[<<s, id>>] = chainFiles'[id]
                      /\ id \in Range(ListChainsByCommitResult(s, FALSE).val.items)'
               ELSE UNCHANGED <<commitDirs, commitFiles, indexFile>>]_vars

\* A chain ended with commitSha '' has just been saved, after another chain
\* was saved under sha1.
C9_Witness ==
  /\ lastSave # None
  /\ saved[Get(lastSave).id].chain.commitSha = Some("")
  /\ \E id \in DOMAIN saved : <<"sha1", id>> \in assoc
  /\ commitDirs = {"sha1"}

\* C10: the commit index holds no duplicates. After saves that all returned,
\* the entry of a SHA lists exactly the distinct chainIds saved under it, each
\* once, so N distinct ids give N entries; and a save of a chain whose id the
\* entry of its SHA already lists leaves that entry as it was, members and
\* order.
C10_IndexDeduplicated ==
  /\ [](\A s \in QueryShas :
          LET entry == ListChainsByCommitResult(s, FALSE).val.items IN
            /\ Len(entry) = Cardinality({id \in QueryIds : <<s, id>> \in assoc})
            /\ \A i, j \in 1..Len(entry) : entry[i] = entry[j] => i = j)
  /\ [][\A id \in DOMAIN heap, t \in Clock, s \in Shas :
          (/\ heap[id].commitSha = Some(s)
           /\ id \in Range(ListChainsByCommitResult(s, FALSE).val.items)
           /\ SaveChain(id, t, "none", FALSE, FALSE))
            => ListChainsByCommitResult(s, FALSE).val.items' =
                 ListChainsByCommitResult(s, FALSE).val.items]_vars

\* Two chains are listed under sha1, and the last call saved the first of
\* them again.
C10_Witness ==
  /\ Len(ListChainsByCommitResult("sha1", FALSE).val.items) = 2
  /\ lastSave # None /\ Get(lastSave).existed
  /\ Get(lastSave).id = ListChainsByCommitResult("sha1", FALSE).val.items[1]

\* ---------------------------------------------------- commit index properties

\* The value listChainsByCommit(s) returns when no read fails.
Listed(s) == ListChainsByCommitResult(s, FALSE).val

\* C11: the commit index only grows. Once a saveChain has listed chain id c
\* under SHA s, c is still listed under s after every later operation that
\* returns, be it a saveChain for another SHA or chain or a saveChain whose
\* read of commit-index.json fails or finds text that does not parse.
C11_IndexNeverPruned ==
  [][~ret'.threw =>
       \A s \in Shas, id \in QueryIds :
         id \in Range(Listed(s).items) => id \in Range(Listed(s).items')]_vars

\* A saveChain that returned listed a chain under sha2, and a chain saved
\* under sha1 before is no longer listed under sha1.
C11_Witness ==
  /\ ret.op = "saveChain" /\ ~ret.threw
  /\ Listed("sha2").items # <<>>
  /\ \E id \in QueryIds :
       <<"sha1", id>> \in assoc /\ id \notin Range(Listed("sha1").items)

\* C12: a saveChain of a chain with commit SHA s changes the index entry of s
\* alone: for every other SHA u, listChainsByCommit(u) returns after the save
\* what it returned before; and a chain is listed under no SHA but its own.
C12_SaveChangesOnlyItsSha ==
  /\ [](\A s \in Shas, id \in DOMAIN saved :
          id \in Range(Listed(s).items) => saved[id].chain.commitSha = Some(s))
  /\ [][\A id \in DOMAIN heap, t \in Clock, s \in Shas :
          (heap[id].commitSha = Some(s) /\ SaveChain(id, t, "none", FALSE, FALSE))
            => \A u \in QueryShas \ {s} : Listed(u)' = Listed(u)]_vars

\* A chain has just been saved under sha2 while another is listed under sha1.
C12_Witness ==
  /\ lastSave # None
  /\ saved[Get(lastSave).id].chain.commitSha = Some("sha2")
  /\ Listed("sha1").items # <<>>
  /\ Listed("sha2").items # <<>>

\* loadChain(id) returns a document when no read fails.
Loadable(id) == id \in DOMAIN chainFiles /\ chainFiles[id] # Garbage

\* The number a uuid is the text of.
UuidNumber(id) == CHOOSE i \in 1..MaxUuid : ToString(i) = id

\* C13: loadChainsByCommit(s) returns, without failing, the documents of the
\* ids listChainsByCommit(s) lists that load, in the order of the list, and
\* leaves out the ids whose document does not load; the list is in the order
\* the chains were first saved, and when every chain saved under s loads, the
\* result has one document for each of them.
C13_LoadChainsByCommit ==
  \A s \in QueryShas, docFails \in BOOLEAN :
    LET r == LoadChainsByCommitResult(s, FALSE, docFails)
        ids == IF docFails THEN <<>> ELSE SelectSeq(Listed(s).items, Loadable)
        under == {id \in QueryIds : <<s, id>> \in assoc}
    IN /\ ~r.threw
       /\ Len(r.val) = Len(ids)
       /\ \A i \in 1..Len(ids) : r.val[i] = JSONparse(chainFiles[ids[i]]).value
       /\ \A i, j \in 1..Len(ids) :
            i < j => UuidNumber(ids[i]) < UuidNumber(ids[j])
       /\ (~docFails /\ \A id \in under : Loadable(id))
            => Len(r.val) = Cardinality(under)

\* Two chains are listed under sha1; the file of the first was truncated by a
\* failed write, so that only the second loads.
C13_Witness ==
  /\ Len(Listed("sha1").items) = 2
  /\ ~Loadable(Listed("sha1").items[1])
  /\ Loadable(Listed("sha1").items[2])

\* ------------------------------------------------------- metrics properties

\* computeChainMetrics has returned: arg.chain is the chain it was given and
\* ret.val the metrics.
Measured == ret.op = "computeChainMetrics" /\ ~ret.threw

\* The prompts of the steps of the chain measured.
PromptsMeasured == [i \in 1..Len(arg.chain.steps) |-> arg.chain.steps[i].prompt]

\* C14: the style counts partition the steps: no count is negative and
\* interrogative + imperative + narrative is the number of steps of the chain.
C14_StylePartition ==
  Measured =>
    LET c == ret.val.prompts.styleCounts
    IN /\ c.interrogative >= 0 /\ c.imperative >= 0 /\ c.narrative >= 0
       /\ c.interrogative + c.imperative + c.narrative = Len(arg.chain.steps)

\* A chain of two steps, one a question that starts with a verb, was measured.
C14_Witness ==
  /\ Measured
  /\ PromptsMeasured = <<Str_AddXq, Str_fix>>
  /\ ret.val.prompts.styleCounts.interrogative = 1
  /\ ret.val.prompts.styleCounts.imperative = 1

\* The text ends with '?', trailing whitespace ignored.
QuestionMarkLast(p) ==
  \E k \in 1..Len(p) :
    p[k] = "?" /\ \A j \in (k + 1)..Len(p) : p[j] \in Whitespace

\* The first whitespace-delimited token of the text is, in lower case, one of
\* the verbs.
FirstWordIsVerb(p) ==
  \E i \in 1..Len(p), j \in 1..Len(p) :
    /\ i <= j
    /\ \A k \in 1..(i - 1) : p[k] \in Whitespace
    /\ \A k \in i..j : p[k] \notin Whitespace
    /\ j = Len(p) \/ p[j + 1] \in Whitespace
    /\ [k \in 1..(j - i + 1) |-> LowerChar(p[i + k - 1])] \in verbs

\* The style the claim gives a prompt.
StyleOf(p) ==
  IF QuestionMarkLast(p) THEN "interrogative"
  ELSE IF FirstWordIsVerb(p) THEN "imperative"
  ELSE "narrative"

\* The number of the prompts measured whose style is `style`.
StyleCount(style) ==
  Cardinality({i \in 1..Len(PromptsMeasured) : StyleOf(PromptsMeasured[i]) = style})

\* C15: a prompt that ends with '?' (trailing whitespace ignored) is counted
\* interrogative, even when its first word is a verb; any other prompt is
\* counted imperative exactly when its first whitespace-delimited token is,
\* case-insensitively, one of the 15 verbs; the rest are counted narrative.
C15_StyleOrder ==
  /\ Cardinality(verbs) = 15
  /\ Measured =>
       LET c == ret.val.prompts.styleCounts
       IN /\ c.interrogative = StyleCount("interrogative")
          /\ c.imperative = StyleCount("imperative")
          /\ c.narrative = StyleCount("narrative")

\* The one-step chain of the prompt "Add X?" was measured: one interrogative
\* prompt, no imperative one.
C15_Witness ==
  /\ Measured
  /\ PromptsMeasured = <<Str_AddXq>>
  /\ ret.val.prompts.styleCounts =
       [interrogative |-> 1, imperative |-> 0, narrative |-> 0]

\* C16: durationMs is endTime - startTime in milliseconds when that is
\* positive and 0 otherwise; it is 0 for a chain without endTime and never
\* negative.
C16_Duration ==
  Measured =>
    LET c == arg.chain
        d == ret.val.durationMs
    IN /\ d >= 0
       /\ ~IsSome(c.endTime) => d = 0
       /\ IsSome(c.endTime) =>
            LET elapsed == Get(c.endTime)[2] - c.startTime[2]
            IN d = IF elapsed > 0 THEN elapsed ELSE 0

\* A chain whose endTime is earlier than its startTime was measured.
C16_Witness ==
  /\ Measured
  /\ IsSome(arg.chain.endTime)
  /\ Get(arg.chain.endTime)[2] < arg.chain.startTime[2]
  /\ ret.val.durationMs = 0

\* The fileDiff entries of the steps, in order; none for a step without fileDiffs.
RECURSIVE AllDiffs(_)
AllDiffs(steps) ==
  IF steps = <<>> THEN <<>>
  ELSE (IF IsSome(Head(steps).fileDiffs) THEN Get(Head(steps).fileDiffs) ELSE <<>>)
       \o AllDiffs(Tail(steps))

\* The sum of the numbers of a sequence.
RECURSIVE Sum(_)
Sum(ns) == IF ns = <<>> THEN 0 ELSE Head(ns) + Sum(Tail(ns))

\* C17: modificationSteps is the number of steps with at least one fileDiff;
\* uniqueFilesChanged is the number of distinct filePaths over all entries, at
\* most the number of entries; totalLinesAdded and totalLinesDeleted are the
\* sums of linesAdded and linesDeleted over every entry, a file changed in
\* several steps adding its lines each time.
C17_FileAggregates ==
  Measured =>
    LET steps == arg.chain.steps
        ds == AllDiffs(steps)
        m == ret.val
    IN /\ m.modificationSteps =
            Cardinality({i \in 1..Len(steps) :
                           /\ IsSome(steps[i].fileDiffs)
                           /\ Get(steps[i].fileDiffs) # <<>>})
       /\ m.uniqueFilesChanged = Cardinality({ds[i].filePath : i \in 1..Len(ds)})
       /\ m.uniqueFilesChanged <= Len(ds)
       /\ m.totalLinesAdded = Sum([i \in 1..Len(ds) |-> ds[i].linesAdded])
       /\ m.totalLinesDeleted = Sum([i \in 1..Len(ds) |-> ds[i].linesDeleted])

\* The chain of the aggregation test was measured: file1.ts changed in both
\* steps, file2.ts in the second.
C17_Witness ==
  /\ Measured
  /\ AllDiffs(arg.chain.steps) = <<Diff_file1, Diff_file1Again, Diff_file2>>
  /\ ret.val.modificationSteps = 2
  /\ ret.val.uniqueFilesChanged = 2
  /\ ret.val.totalLinesAdded = 13
  /\ ret.val.totalLinesDeleted = 1

\* C18: totalLengthChars is the sum of the lengths of the prompts;
\* avgLengthChars is that sum divided by the number of steps and rounded to
\* the nearest integer, halves upwards; for a chain without steps it is 0 and
\* the call returns.
C18_PromptLengths ==
  (ret.op = "computeChainMetrics") =>
    LET n == Len(arg.chain.steps)
        total == Sum([i \in 1..n |-> Len(PromptsMeasured[i])])
        avg == ret.val.prompts.avgLengthChars
    IN /\ ~ret.threw
       /\ ret.val.prompts.totalLengthChars = total
       /\ n = 0 => avg = 0
       /\ n > 0 => 2 * n * avg <= 2 * total + n /\ 2 * total + n < 2 * n * (avg + 1)

\* Two prompts of 9 characters together were measured: the average 4.5 is
\* rounded to 5.
C18_Witness ==
  /\ Measured
  /\ Len(arg.chain.steps) = 2
  /\ ret.val.prompts.totalLengthChars = 9
  /\ ret.val.prompts.avgLengthChars = 5

\* ------------------------------------------------------ git diff properties

\* The number of the lines of the diff text parsed that are of `kind`.
LinesOfKind(kind) ==
  Cardinality({i \in 1..Len(arg.diff.lines) : arg.diff.lines[i].kind = kind})

C20_ChangeType ==
  (ret.op = "getCommitDiffs") =>
    LET f == arg.file
        insertions == IF f.insertions = None THEN 0 ELSE f.insertions[1]
        deletions == IF f.deletions = None THEN 0 ELSE f.deletions[1]
        type == ret.val.changeType
    IN /\ f.binary => type = "modified"
       /\ (~f.binary /\ insertions > 0 /\ deletions = 0) => type = "added"
       /\ (~f.binary /\ deletions > 0 /\ insertions = 0) => type = "deleted"
       /\ (~f.binary /\ insertions = 0 /\ deletions = 0) => type = "modified"
       /\ (~f.binary /\ insertions > 0 /\ deletions > 0) => type = "modified"

\* A binary file with insertions and no deletions was classified 'modified'.
C20_Witness ==
  /\ ret.op = "getCommitDiffs"
  /\ arg.file.binary
  /\ arg.file.insertions = Some(1)
  /\ arg.file.deletions = Some(0)
  /\ ret.val.changeType = "modified"

\* ------------------------------------------------------ failure properties

\* C21: a write failure in saveChain is not swallowed: when the write of the
\* chain document fails, or for a chain with a commit SHA the creation of the
\* commit directory, the write of the commit copy or the write of
\* commit-index.json, the call throws and does not return a file path.
C21_WriteFailurePropagates ==
  [][\A id \in DOMAIN heap, fault \in WriteFaults,
        torn \in BOOLEAN, readFails \in BOOLEAN :
       ( /\ SaveChain(id, now, fault, torn, readFails)
         /\ fault = "doc" \/ HasCommitSha(heap[id]) )
         => ret'.op = "saveChain" /\ ret'.threw]_vars

\* The write of commit-index.json failed after the document and its commit
\* copy were written, and saveChain threw.
C21_Witness ==
  /\ ret = Threw("saveChain", "index")
  /\ \E id \in DOMAIN chainFiles, s \in Shas :
       /\ chainFiles[id] # Garbage
       /\ <<s, id>> \in DOMAIN commitFiles
       /\ id \notin Range(Listed(s).items)

\* C27: saveChain writes the document, then the commit copy, then the index:
\* in every state, also after a saveChain that a failed write interrupted,
\* each chain id that commit-index.json lists under a SHA s has its files
\* chain-<id>.json and commits/<s>/chain-<id>.json; a failed save may leave a
\* document that the index does not list, never an entry without its files.
C27_IndexedChainsHaveDocuments ==
  \A s \in Shas, id \in QueryIds :
    id \in Range(Listed(s).items) =>
      /\ id \in DOMAIN chainFiles
      /\ s \in commitDirs
      /\ <<s, id>> \in DOMAIN commitFiles

\* A saveChain failed after it wrote its document: the document is stored and
\* is listed under no SHA, while the index lists a chain saved before.
C27_Witness ==
  /\ ret.op = "saveChain" /\ ret.threw
  /\ \E id \in DOMAIN chainFiles : \A s \in Shas : id \notin Range(Listed(s).items)
  /\ \E s \in Shas : Listed(s).items # <<>>

\* ------------------------------------------------------- decoupling, endTime

\* The steps of the stored document of chain id.
StoredSteps(id) == JSONparse(chainFiles[id]).value.chain.steps

\* C24: lifecycle and storage are decoupled. startChain, addStep and endChain
\* leave every stored file as it is; saveChain leaves the manager idle or
\* active as it was and every chain object as it was; so the stored document
\* of a chain has the steps the chain had when it was last saved, however many
\* it has now.
C24_LifecycleStorageDecoupled ==
  /\ [](\A id \in DOMAIN saved \cap DOMAIN heap :
          /\ Len(StoredSteps(id)) = Len(saved[id].chain.steps)
          /\ Len(StoredSteps(id)) <= Len(heap[id].steps))
  /\ [][/\ ret'.op \in {"startChain", "addStep", "endChain"}
            => UNCHANGED storageVars
        /\ ret'.op = "saveChain"
            => currentChain' = currentChain /\ heap' = heap]_vars

\* The active chain was saved and then given a step: it is still active and
\* its stored document does not have the step.
C24_Witness ==
  /\ ret.op = "addStep" /\ ~ret.threw
  /\ currentChain # None
  /\ Get(currentChain) \in DOMAIN saved
  /\ Len(StoredSteps(Get(currentChain))) < Len(heap[Get(currentChain)].steps)

\* C25: a chain has no endTime while it is active and has one from the
\* endChain that detaches it; an endTime, once set, is changed by no call;
\* and with a clock that does not go backwards endTime >= startTime.
C25_EndTimeSetOnce ==
  /\ [](\A id \in DOMAIN heap :
          /\ currentChain = Some(id) => heap[id].endTime = None
          /\ currentChain # Some(id) => heap[id].endTime # None
          /\ heap[id].endTime # None =>
               Get(heap[id].endTime)[2] >= heap[id].startTime[2])
  /\ [][\A id \in DOMAIN heap \cap DOMAIN heap' :
          /\ heap[id].endTime # None => heap'[id].endTime = heap[id].endTime
          /\ (heap[id].endTime = None /\ heap'[id].endTime # None)
               => /\ ret'.op = "endChain"
                  /\ currentChain = Some(id)
                  /\ currentChain' = None]_vars

\* endChain was called again, idle, while the caller holds a chain ended
\* later than it started: the call returned null.
C25_Witness ==
  /\ ret = Returned("endChain", None)
  /\ \E id \in held :
       /\ heap[id].endTime # None
       /\ Get(heap[id].endTime)[2] > heap[id].startTime[2]

\* ------------------------------------------------------- FileDiff counts

\* The counts of FileDiff d are those parseDiffStats derives from its text,
\* unless the text is empty.
CountsMatchDiff(d) ==
  d.diff # <<>> =>
    /\ d.linesAdded = parseDiffStats(d.diff).added
    /\ d.linesDeleted = parseDiffStats(d.diff).deleted

\* C23: every FileDiff held in a chain whose diff text is not empty has as
\* linesAdded and linesDeleted the counts that parseDiffStats derives from
\* that text.
C23_FileDiffCounts ==
  \A id \in DOMAIN heap : \A i \in 1..Len(heap[id].steps) :
    LET fileDiffs == heap[id].steps[i].fileDiffs
    IN IsSome(fileDiffs) =>
         \A k \in 1..Len(Get(fileDiffs)) : CountsMatchDiff(Get(fileDiffs)[k])

\* addStep has stored a FileDiff with a diff text in the active chain.
C23_Witness ==
  /\ ret.op = "addStep" /\ ~ret.threw
  /\ \E i \in 1..Len(heap[Get(currentChain)].steps) :
       LET fileDiffs == heap[Get(currentChain)].steps[i].fileDiffs
       IN IsSome(fileDiffs) /\ Get(fileDiffs)[1].diff # <<>>

\* ------------------------------------------------------------ cli properties

\* C29: the 'save' command ends the chain before it persists it. Whenever
\* saveChain has returned or failed, the manager is idle; back at the menu the
\* CLI references no chain but the active one, so that the chain of a failed
\* save reaches no later saveChain: the files of a chain no longer referenced
\* never change, and a 'save' typed then finds no active chain. After a
\* failed save the document of the chain need not be in storage.
C29_CliSaveEndsChainFirst ==
  /\ [](ret.op = "saveChain" => currentChain = None)
  /\ [](AtMenu => DOMAIN heap = Refs(currentChain))
  /\ [][\A id \in QueryIds :
          (id \notin DOMAIN heap /\ UuidNumber(id) < nextUuid) =>
            /\ id \notin DOMAIN heap'
            /\ (id \in DOMAIN chainFiles') = (id \in DOMAIN chainFiles)
            /\ id \in DOMAIN chainFiles => chainFiles'[id] = chainFiles[id]]_vars
  /\ [][(AtMenu /\ currentChain = None /\ ret'.op = "save")
          => UNCHANGED <<heap, currentChain, storageVars>>]_vars

\* A 'save' whose document write failed has shown the menu again and 'save'
\* was typed once more: the manager is idle, the chain is referenced nowhere
\* and has no document.
C29_Witness ==
  /\ ret = Returned("save", Some("No active chain to save."))
  /\ nFaults = 1
  /\ currentChain = None
  /\ heap = <<>>
  /\ chainFiles = <<>>
  /\ nChains = 1

\* ------------------------------------------------------------------ isolation

\* C30: a chain that endChain returned is out of the manager's reach: no later
\* startChain, addStep or endChain changes its chainId, steps, endTime,
\* commitSha, branch or anything else of it, nor makes it the active chain
\* again; a step added after a new startChain goes to the new chain alone.
C30_EndedChainIsolated ==
  [][\A id \in DOMAIN heap :
       heap[id].endTime # None =>
         /\ id \in DOMAIN heap'
         /\ heap'[id] = heap[id]
         /\ currentChain' # Some(id)]_vars

\* The caller holds an ended chain without steps; the chain started after it
\* is active and has just been given a step.
C30_Witness ==
  /\ ret.op = "addStep" /\ ~ret.threw
  /\ currentChain # None
  /\ heap[Get(currentChain)].steps # <<>>
  /\ \E id \in held :
       /\ Some(id) # currentChain
       /\ heap[id].endTime # None
       /\ heap[id].commitSha = Some("sha1")
       /\ heap[id].steps = <<>>

\* ------------------------------------------------- index and documents agree

\* C26: after any sequence of saveChain calls that returned, one after the
\* other, among them a second save of a chainId with another commit SHA,
\* every document that loadChainsByCommit(s) returns has chain.commitSha = s.
C26_IndexDocumentConsistent ==
  \A s \in QueryShas :
    LET r == LoadChainsByCommitResult(s, FALSE, FALSE)
    IN ~r.threw =>
         \A i \in 1..Len(r.val) : r.val[i].chain.commitSha = Some(s)

\* A chain saved under sha1 was saved again under sha2: the index lists it
\* under both, and its document says sha2.
C26_Witness ==
  /\ lastSave # None
  /\ \E id \in DOMAIN saved :
       /\ id \in Range(Listed("sha1").items)
       /\ id \in Range(Listed("sha2").items)
       /\ JSONparse(chainFiles[id]).value.chain.commitSha = Some("sha2")

\* ------------------------------------------------- interleaved saveChain

Fulfilled(c) == calls[c].pc = "fulfilled"

\* Call c has not written commit-index.json.
BeforeIndexWrite(c) ==
  \/ ~HasCommitSha(calls[c].chain)
  \/ calls[c].pc \in {"document", "mkdir", "copy", "read", "write"}

\* C22: the update of the commit index is a read-modify-write of the whole
\* file that is not atomic. When two saveChain calls for one SHA and two
\* chain ids have both read the index before either wrote it (neither found
\* the other's id) and both have returned, and no other call wrote the index,
\* the entry of the SHA lists exactly one of the two ids: one update is lost.
C22_LostIndexUpdate ==
  \A a, b \in DOMAIN calls :
    LET sha == Get(calls[a].chain.commitSha)
        ida == calls[a].chain.chainId
        idb == calls[b].chain.chainId
    IN ( /\ Fulfilled(a) /\ Fulfilled(b)
         /\ HasCommitSha(calls[a].chain)
         /\ calls[b].chain.commitSha = calls[a].chain.commitSha
         /\ ida # idb
         /\ ida \notin Range(IndexEntry(calls[b].index, sha).items)
         /\ idb \notin Range(IndexEntry(calls[a].index, sha).items)
         /\ \A c \in DOMAIN calls \ {a, b} : BeforeIndexWrite(c) )
       => Cardinality(Range(Listed(sha).items) \cap {ida, idb}) = 1

\* Two saveChain calls for chains 1 and 2 under sha1 have both returned, and
\* commit-index.json lists only chain 1 under sha1.
C22_Witness ==
  /\ Len(calls) = 2
  /\ Fulfilled(1) /\ Fulfilled(2)
  /\ calls[1].chain.chainId = "1" /\ calls[2].chain.chainId = "2"
  /\ calls[1].chain.commitSha = Some("sha1")
  /\ calls[2].chain.commitSha = Some("sha1")
  /\ Listed("sha1").items = <<"1">>

\* C28: interleaved saveChain calls lose no chain document: once a call has
\* returned, listChains has the id of its chain and loadChain returns the
\* document of that chain, whatever the interleaving, also when the index
\* has lost the id.
C28_NoDocumentLost ==
  \A c \in DOMAIN calls :
    Fulfilled(c) =>
      LET id == calls[c].chain.chainId
      IN /\ id \in Range(ListChainsResult(FALSE).val)
         /\ LoadChainResult(id, FALSE).val # None
         /\ Get(LoadChainResult(id, FALSE).val).chain = ChainToJSON(calls[c].chain)
         /\ Get(LoadChainResult(id, FALSE).val) = calls[c].text.value

\* Two calls for the chains 1 and 2 under sha2 have returned; the index has
\* lost chain 1, and both documents load.
C28_Witness ==
  /\ Len(calls) = 2
  /\ Fulfilled(1) /\ Fulfilled(2)
  /\ calls[1].chain.chainId = "1" /\ calls[2].chain.chainId = "2"
  /\ Listed("sha2").items = <<"2">>
  /\ <<"sha2", "1">> \in assoc
  /\ LoadChainResult("1", FALSE).val # None
  /\ LoadChainResult("2", FALSE).val # None

====
